---------------------------- MODULE Spec2Model ----------------------------
(***************************************************************************)
(* pragma-dsp: radix-2 FFT kernel, split-buffer complex arithmetic and the *)
(* spectrum helpers, as state machines over a heap of ComplexArray         *)
(* objects.                                                                *)
(*                                                                         *)
(* Numbers.  A Float64 is modelled by its exact value: an element of the   *)
(* cyclotomic field Q(z), z = exp(2*pi*i/RootOrder), written as            *)
(*   [c |-> <<c_0, ..., c_(Dim-1)>>, d |-> d]  =  (SUM c_k z^k) / d        *)
(* with d > 0 and the fraction in lowest terms; d = 0 is NaN.  The field   *)
(* holds every cos/sin the twiddle tables need, so the butterflies are     *)
(* computed with the code's own real-arithmetic formulas and no rounding.  *)
(* Rounding error, overflow to infinity and signed zero are not modelled.  *)
(***************************************************************************)
EXTENDS Integers, Sequences, FiniteSets, TLC

VARIABLES plan, heap, input, last, calls

vars == <<plan, heap, input, last, calls>>

---------------------------------------------------------------------------
(* Bounds of the model *)

\* largest FFT size is 2^MaxLog2
MaxLog2 == 3
\* API sizes and lengths (plans, inputs, caller buffers) range up to MaxSize
MaxSize == 4
\* the caller creates at most MaxBufs buffers of its own
MaxBufs == 1
\* at most MaxCalls transform calls in a behaviour
MaxCalls == 2
\* the buffers of the arithmetic layer have 1..MaxLen elements
MaxLen == 2
\* the spectrum helpers run on frames of 2^0 .. 2^MaxFrameLog2 samples
MaxFrameLog2 == 2

RECURSIVE Pow2(_)
Pow2(n) == IF n <= 0 THEN 1 ELSE 2 * Pow2(n - 1)

RootOrder == IF MaxLog2 < 2 THEN 4 ELSE Pow2(MaxLog2)
Dim == RootOrder \div 2

---------------------------------------------------------------------------
(* Exact arithmetic on Float64 values *)

Abs(n) == IF n < 0 THEN -n ELSE n

RECURSIVE Gcd(_, _)
Gcd(a, b) == IF b = 0 THEN a ELSE Gcd(b, a % b)

RECURSIVE VecGcd(_, _, _)
VecGcd(c, k, g) == IF k > Len(c) \/ g = 1 THEN g
                   ELSE VecGcd(c, k + 1, Gcd(g, Abs(c[k])))

\* a function on 1..n as an explicit tuple
Tuple(f, n) == SubSeq(f, 1, n)

ZeroVec == Tuple([k \in 1..Dim |-> 0], Dim)

NaN == [c |-> ZeroVec, d |-> 0]

IsNaN(a) == a.d = 0

\* (SUM c_k z^k) / d in lowest terms, d > 0
Normalize(c, d) ==
  LET v == Tuple(c, Dim)
      g == VecGcd(v, 1, d)
  IN  [c |-> Tuple([k \in 1..Dim |-> v[k] \div g], Dim), d |-> d \div g]

\* the rational p/q, q > 0
Rat(p, q) == Normalize([k \in 1..Dim |-> IF k = 1 THEN p ELSE 0], q)

Num(n) == Rat(n, 1)

Zero == Num(0)
One == Num(1)

IsRat(a) == a.d > 0 /\ \A k \in 2..Dim : a.c[k] = 0

Neg(a) ==
  IF IsNaN(a) THEN NaN
  ELSE [c |-> Tuple([k \in 1..Dim |-> -a.c[k]], Dim), d |-> a.d]

Add(a, b) ==
  IF IsNaN(a) \/ IsNaN(b) THEN NaN
  ELSE IF a.d = b.d THEN Normalize([k \in 1..Dim |-> a.c[k] + b.c[k]], a.d)
  ELSE Normalize([k \in 1..Dim |-> a.c[k] * b.d + b.c[k] * a.d], a.d * b.d)

Sub(a, b) == Add(a, Neg(b))

\* coefficient k (0-based) of the product of two polynomials in z, z^Dim = -1
RECURSIVE ConvCoef(_, _, _, _)
ConvCoef(a, b, k, i) ==
  IF i >= Dim THEN 0
  ELSE (IF i <= k THEN a[i + 1] * b[k - i + 1]
        ELSE -(a[i + 1] * b[k + Dim - i + 1]))
       + ConvCoef(a, b, k, i + 1)

\* The square root of a positive rational that is no square of a rational
\* (a value of Math.hypot) is carried as [c, d, root]: the root of c[1] / d.
IsRoot(a) == "root" \in DOMAIN a

\* a * r for a root a and a rational r >= 0
RootTimes(a, r) ==
  IF r.c[1] = 0 THEN [c |-> ZeroVec, d |-> 1]
  ELSE LET sq == Normalize([k \in 1..Dim |-> IF k = 1 THEN a.c[1] * r.c[1] * r.c[1] ELSE 0],
                           a.d * r.d * r.d)
       IN  [c |-> sq.c, d |-> sq.d, root |-> TRUE]

Mul(a, b) ==
  IF IsNaN(a) \/ IsNaN(b) THEN NaN
  ELSE IF IsRoot(a) \/ IsRoot(b)
    THEN CASE IsRoot(a) /\ ~IsRoot(b) /\ IsRat(b) /\ b.c[1] >= 0 -> RootTimes(a, b)
           [] IsRoot(b) /\ ~IsRoot(a) /\ IsRat(a) /\ a.c[1] >= 0 -> RootTimes(b, a)
  ELSE IF IsRat(a) THEN Normalize([k \in 1..Dim |-> a.c[1] * b.c[k]], a.d * b.d)
  ELSE IF IsRat(b) THEN Normalize([k \in 1..Dim |-> a.c[k] * b.c[1]], a.d * b.d)
  ELSE Normalize([k \in 1..Dim |-> ConvCoef(a.c, b.c, k - 1, 0)], a.d * b.d)

\* the image of a under the field automorphism z |-> z^g (g odd)
Conjugate(a, g) ==
  [c |-> Tuple([j \in 1..Dim |->
            LET k == CHOOSE k \in 0..(Dim - 1) : ((g * k) % Dim) = j - 1
            IN  IF ((g * k) % RootOrder) < Dim THEN a.c[k + 1] ELSE -a.c[k + 1]], Dim),
   d |-> a.d]

\* product of the conjugates z |-> z^g, g = 3, 5, ..., Dim - 1, of a real number
RECURSIVE ConjProduct(_, _)
ConjProduct(a, g) ==
  IF g >= Dim THEN One ELSE Mul(Conjugate(a, g), ConjProduct(a, g + 2))

\* a / b for real b.  x / 0 is NaN: at every division of the code a zero
\* divisor br*br + bi*bi comes with a zero dividend, and 0/0 is NaN.
Div(a, b) ==
  IF IsNaN(a) \/ IsNaN(b) \/ b = Zero THEN NaN
  ELSE IF IsRoot(a)
    THEN CASE ~IsRoot(b) /\ IsRat(b) /\ b.c[1] > 0 -> RootTimes(a, Rat(b.d, b.c[1]))
  ELSE LET p == IF IsRat(b) THEN One ELSE ConjProduct(b, 3)
           n == Mul(b, p)
           s == IF n.c[1] < 0 THEN -1 ELSE 1
       IN  Mul(Mul(a, p), Normalize([k \in 1..Dim |-> IF k = 1 THEN s * n.d ELSE 0],
                                    Abs(n.c[1])))

\* z^t as a coefficient vector
Unit(t) ==
  LET r == t % RootOrder
  IN  Tuple([k \in 1..Dim |-> IF r < Dim THEN (IF k = r + 1 THEN 1 ELSE 0)
                              ELSE (IF k = r - Dim + 1 THEN -1 ELSE 0)], Dim)

\* the angle 2*pi*k/m as a multiple of 2*pi/RootOrder (m divides RootOrder)
Angle(k, m) == (k * (RootOrder \div m)) % RootOrder

\* Math.cos and Math.sin of the angle 2*pi*t/RootOrder
MathCos(t) ==
  LET u == Unit(t) v == Unit(-t)
  IN  Normalize([k \in 1..Dim |-> u[k] + v[k]], 2)

MathSin(t) ==
  LET u == Unit(t - (RootOrder \div 4)) v == Unit(-t - (RootOrder \div 4))
  IN  Normalize([k \in 1..Dim |-> u[k] - v[k]], 2)

\* the largest k with k * k <= n
ISqrt(n) == CHOOSE k \in 0..n : k * k <= n /\ (k + 1) * (k + 1) > n

\* Math.hypot(x, y) on rational x, y
MathHypot(x, y) ==
  IF IsNaN(x) \/ IsNaN(y) THEN NaN
  ELSE CASE IsRat(x) /\ IsRat(y) ->
         LET sq == Add(Mul(x, x), Mul(y, y))
             n == ISqrt(sq.c[1])
             d == ISqrt(sq.d)
         IN  IF n * n = sq.c[1] /\ d * d = sq.d THEN Rat(n, d)
             ELSE [c |-> sq.c, d |-> sq.d, root |-> TRUE]

\* Math.atan2(y, x) on rational y, x: 0 on the non-negative real axis,
\* elsewhere the angle of the direction (y, x), carried as the smallest
\* integer vector of that direction
MathAtan2(y, x) ==
  IF IsNaN(y) \/ IsNaN(x) THEN NaN
  ELSE CASE IsRat(y) /\ IsRat(x) ->
         IF y.c[1] = 0 /\ x.c[1] >= 0 THEN Zero
         ELSE LET yy == y.c[1] * x.d
                  xx == x.c[1] * y.d
                  g == Gcd(Abs(yy), Abs(xx))
              IN  [atan2 |-> <<yy \div g, xx \div g>>]

---------------------------------------------------------------------------
(* Sizes.  A size argument is any JavaScript number; the model carries the *)
(* integers and the half-integers as [num, den] with den in {1, 2}.        *)

SizeOf(n) == [num |-> n, den |-> 1]
Half(n) == [num |-> n, den |-> 2]

\* ToInt32 of a size (truncation toward zero; the sizes of the model are far
\* below 2^31, where the 32-bit wrap-around starts)
ToInt32(s) == IF s.num >= 0 THEN s.num \div s.den ELSE -((-s.num) \div s.den)

\* a & b on non-negative 32-bit integers
RECURSIVE BitAnd(_, _)
BitAnd(a, b) ==
  IF a = 0 \/ b = 0 THEN 0
  ELSE 2 * BitAnd(a \div 2, b \div 2) + (IF a % 2 = 1 /\ b % 2 = 1 THEN 1 ELSE 0)

\* n > 0 && (n & (n - 1)) === 0
isPowerOfTwo(n) ==
  /\ n.num > 0
  /\ BitAnd(ToInt32(n), ToInt32([num |-> n.num - n.den, den |-> n.den])) = 0

\* Math.round(Math.log2(size)) for size >= 1/2: the L with
\* 2^(L - 1/2) <= size < 2^(L + 1/2)
RECURSIVE RoundLog2From(_, _)
RoundLog2From(s, L) ==
  IF s.num * s.num < 2 * Pow2(2 * L) * s.den * s.den THEN L
  ELSE RoundLog2From(s, L + 1)

RoundLog2(s) ==
  IF 2 * s.num * s.num < s.den * s.den THEN -1 ELSE RoundLog2From(s, 0)

\* new Float64Array(size) / new Uint32Array(size): the length is ToIndex(size)
ToIndex(s) == s.num \div s.den

\* the inner loop of buildBitReverse: y = (y << 1) | (x & 1); x >>= 1
RECURSIVE ReverseBits(_, _, _, _)
ReverseBits(x, y, b, bits) ==
  IF b >= bits THEN y
  ELSE ReverseBits(x \div 2, 2 * y + (x % 2), b + 1, bits)

\* a table that leaves every index where it is
buildBitReverseIdentity(size) ==
  Tuple([i \in 1..ToIndex(size) |-> i - 1], ToIndex(size))

\* rev[i] for 0 <= i < size; a store at an index past the array is dropped
buildBitReverse(size) ==
  LET bits == RoundLog2(size)
  IN  Tuple([i \in 1..ToIndex(size) |-> ReverseBits(i - 1, 0, 0, bits)],
            ToIndex(size))

\* one table per stage: cos/sin of -2*pi*k/m for k in [0, m/2)
buildTwiddles(size) ==
  LET stages == RoundLog2(size)
  IN  Tuple([stage \in 1..stages |->
               LET m == Pow2(stage)
                   half == m \div 2
               IN  [cos |-> Tuple([k \in 1..half |-> MathCos(Angle(-(k - 1), m))], half),
                    sin |-> Tuple([k \in 1..half |-> MathSin(Angle(-(k - 1), m))], half)]],
            IF stages < 0 THEN 0 ELSE stages)

NoPlan == [cls |-> "none"]

\* new Radix2Fft(size): the error of a refused size, or the plan
Radix2FftNew(size) ==
  IF ~isPowerOfTwo(size) THEN [ok |-> FALSE, error |-> "InvalidSize"]
  ELSE [ok |-> TRUE,
        value |-> [cls |-> "Radix2Fft", size |-> size,
                   bitReverse |-> buildBitReverse(size),
                   twiddles |-> buildTwiddles(size)]]

\* new FFT(size): its own size check, then the kernel
FFTNew(size) ==
  IF ~isPowerOfTwo(size) THEN [ok |-> FALSE, error |-> "InvalidSize"]
  ELSE LET k == Radix2FftNew(size)
       IN  IF ~k.ok THEN k
           ELSE [ok |-> TRUE,
                 value |-> [cls |-> "FFT", size |-> size, kernel |-> k.value]]

\* new FluentFFT(size): this.fft = new FFT(size); this.size = this.fft.size
FluentFFTNew(size) ==
  LET f == FFTNew(size)
  IN  IF ~f.ok THEN f
      ELSE [ok |-> TRUE,
            value |-> [cls |-> "FluentFFT", size |-> f.value.size, fft |-> f.value]]

\* the Radix2Fft a plan object of any of the three classes runs on
KernelOf(p) ==
  IF p.cls = "Radix2Fft" THEN p
  ELSE IF p.cls = "FFT" THEN p.kernel
  ELSE p.fft.kernel

---------------------------------------------------------------------------
(* Buffers.  heap[r] is the ComplexArray object with reference r >= 1, a   *)
(* record of two Float64Arrays; reference 0 is an omitted argument.        *)

\* createComplexArray(size, fill)
createComplexArray(size, fill) ==
  [real |-> Tuple([i \in 1..size |-> fill], size),
   imag |-> Tuple([i \in 1..size |-> fill], size)]

\* arr[i] in arithmetic: a read past the end is undefined, NaN once used
Get(arr, i) == IF i + 1 \in DOMAIN arr THEN arr[i + 1] ELSE NaN

\* arr[i] ?? 0
GetOrZero(arr, i) == IF i + 1 \in DOMAIN arr THEN arr[i + 1] ELSE Zero

\* arr[i] = v on a Float64Array: a store past the end is dropped
Put(arr, i, v) == IF i + 1 \in DOMAIN arr THEN [arr EXCEPT ![i + 1] = v] ELSE arr

\* array arguments: a plain array passed by the caller, one part of a heap
\* object, or null
PlainArray(x) == [ref |-> 0, part |-> "plain", val |-> x]
PartOf(r, p) == [ref |-> r, part |-> p, val |-> << >>]
Null == [ref |-> 0, part |-> "null", val |-> << >>]

Load(h, a) == IF a.ref = 0 THEN a.val ELSE h[a.ref][a.part]

---------------------------------------------------------------------------
(* Radix2Fft.transform *)

\* Scatter that stores no imaginary part for a real input, as if the
\* output buffer were always freshly zeroed
RECURSIVE ScatterRealOnly(_, _, _, _, _, _)
ScatterRealOnly(h, k, inReal, inImag, out, i) ==
  IF i >= ToIndex(k.size) THEN h
  ELSE LET j == k.bitReverse[i + 1]
           h1 == [h EXCEPT ![out].real = Put(@, j, GetOrZero(Load(h, inReal), i))]
           h2 == IF inImag.part = "null" THEN h1
                 ELSE [h1 EXCEPT ![out].imag =
                         Put(@, j, GetOrZero(Load(h1, inImag), i))]
       IN  ScatterRealOnly(h2, k, inReal, inImag, out, i + 1)

\* for (i = 0; i < size; i++) { j = rev[i]; outReal[j] = inputReal[i] ?? 0;
\*                              outImag[j] = inputImag ? inputImag[i] ?? 0 : 0 }
RECURSIVE Scatter(_, _, _, _, _, _)
Scatter(h, k, inReal, inImag, out, i) ==
  IF i >= ToIndex(k.size) THEN h
  ELSE LET j == k.bitReverse[i + 1]
           h1 == [h EXCEPT ![out].real = Put(@, j, GetOrZero(Load(h, inReal), i))]
           h2 == [h1 EXCEPT ![out].imag =
                    Put(@, j, IF inImag.part = "null" THEN Zero
                              ELSE GetOrZero(Load(h1, inImag), i))]
       IN  Scatter(h2, k, inReal, inImag, out, i + 1)

\* a butterfly whose twiddle product has the sign of its imaginary part wrong
ButterflySignError(o, cos, sin, sinSign, a, b) ==
  LET ss == Mul(Num(sinSign), sin)
      tReal == Sub(Mul(cos, Get(o.real, b)), Mul(ss, Get(o.imag, b)))
      tImag == Sub(Mul(ss, Get(o.real, b)), Mul(cos, Get(o.imag, b)))
      uReal == Get(o.real, a)
      uImag == Get(o.imag, a)
      r1 == Put(o.real, a, Add(uReal, tReal))
      i1 == Put(o.imag, a, Add(uImag, tImag))
  IN  [real |-> Put(r1, b, Sub(uReal, tReal)),
       imag |-> Put(i1, b, Sub(uImag, tImag))]

\* one butterfly on the pair (a, b) = (k + j, k + j + half) of the buffer o
Butterfly(o, cos, sin, sinSign, a, b) ==
  LET ss == Mul(Num(sinSign), sin)
      tReal == Sub(Mul(cos, Get(o.real, b)), Mul(ss, Get(o.imag, b)))
      tImag == Add(Mul(ss, Get(o.real, b)), Mul(cos, Get(o.imag, b)))
      uReal == Get(o.real, a)
      uImag == Get(o.imag, a)
      r1 == Put(o.real, a, Add(uReal, tReal))
      i1 == Put(o.imag, a, Add(uImag, tImag))
  IN  [real |-> Put(r1, b, Sub(uReal, tReal)),
       imag |-> Put(i1, b, Sub(uImag, tImag))]

\* for (j = 0; j < half; j++) within the block starting at k
RECURSIVE BlockLoop(_, _, _, _, _, _)
BlockLoop(o, table, sinSign, half, k, j) ==
  IF j >= half THEN o
  ELSE BlockLoop(Butterfly(o, table.cos[j + 1], table.sin[j + 1], sinSign,
                           k + j, k + j + half),
                 table, sinSign, half, k, j + 1)

\* for (k = 0; k < size; k += m)
RECURSIVE StageLoop(_, _, _, _, _, _)
StageLoop(o, table, sinSign, size, m, k) ==
  IF k >= size THEN o
  ELSE StageLoop(BlockLoop(o, table, sinSign, m \div 2, k, 0),
                 table, sinSign, size, m, k + m)

\* for (stage = 0; stage < twiddles.length; stage++)
RECURSIVE Stages(_, _, _, _)
Stages(o, k, inverse, stage) ==
  IF stage >= Len(k.twiddles) THEN o
  ELSE Stages(StageLoop(o, k.twiddles[stage + 1], IF inverse THEN -1 ELSE 1,
                        ToIndex(k.size), Pow2(stage + 1), 0),
              k, inverse, stage + 1)

\* an inverse transform that forgets the 1 / size factor
ScaleForgotten(o, k) == o

\* if (inverse) every element is multiplied by 1 / size
ScaleByInverseSize(o, k) ==
  LET scale == Rat(1, ToIndex(k.size))
  IN  [real |-> Tuple([i \in DOMAIN o.real |->
                   IF i <= ToIndex(k.size) THEN Mul(o.real[i], scale) ELSE o.real[i]],
                         Len(o.real)),
       imag |-> Tuple([i \in DOMAIN o.imag |->
                   IF i <= ToIndex(k.size) THEN Mul(o.imag[i], scale) ELSE o.imag[i]],
                         Len(o.imag))]

\* a transform that accepts input of any length
LengthUnchecked(arr, size) == FALSE

\* the length test `length !== this.size`
LengthDiffers(arr, size) == ~(size.den = 1 /\ size.num = Len(arr))

\* transform(inputReal, inputImag, out, inverse) on the heap h: the thrown
\* error, or the reference returned and the heap left behind
transform(h, k, inReal, inImag, out, inverse) ==
  IF LengthDiffers(Load(h, inReal), k.size)
    THEN [status |-> "InvalidLength", ret |-> 0, heap |-> h]
  ELSE IF inImag.part # "null" /\ LengthDiffers(Load(h, inImag), k.size)
    THEN [status |-> "InvalidLength", ret |-> 0, heap |-> h]
  ELSE LET h0 == IF out = 0
                 THEN Append(h, createComplexArray(ToIndex(k.size), Zero))
                 ELSE h
           result == IF out = 0 THEN Len(h) + 1 ELSE out
           h1 == Scatter(h0, k, inReal, inImag, result, 0)
           o1 == Stages(h1[result], k, inverse, 0)
           o2 == IF inverse THEN ScaleByInverseSize(o1, k) ELSE o1
       IN  [status |-> "ok", ret |-> result, heap |-> [h1 EXCEPT ![result] = o2]]

\* an inverse that, given no output buffer, works in its input buffer
inverseInInput(h, k, in, out) ==
  transform(h, k, PartOf(in, "real"), PartOf(in, "imag"),
            IF out = 0 THEN in ELSE out, TRUE)

\* forward(input, out), forwardComplex(input, out), inverse(input, out)
forward(h, k, x, out) == transform(h, k, PlainArray(x), Null, out, FALSE)
forwardComplex(h, k, in, out) ==
  transform(h, k, PartOf(in, "real"), PartOf(in, "imag"), out, FALSE)
inverse(h, k, in, out) ==
  transform(h, k, PartOf(in, "real"), PartOf(in, "imag"), out, TRUE)

---------------------------------------------------------------------------
(* Complex arithmetic on split buffers.  a, b and out are references into  *)
(* the heap h and may be equal; every operator returns the heap left       *)
(* behind.  The loops read and store in the order of the code.             *)

len(h, a) == Len(h[a].real)

\* alloc(n)
alloc(n) == [real |-> Tuple([i \in 1..n |-> Zero], n),
             imag |-> Tuple([i \in 1..n |-> Zero], n)]

StoreReal(h, out, i, v) == [h EXCEPT ![out].real = Put(@, i, v)]
StoreImag(h, out, i, v) == [h EXCEPT ![out].imag = Put(@, i, v)]

RECURSIVE scaleLoop(_, _, _, _, _, _)
scaleLoop(h, a, s, out, i, n) ==
  IF i >= n THEN h
  ELSE LET h1 == StoreReal(h, out, i, Mul(Get(h[a].real, i), s))
           h2 == StoreImag(h1, out, i, Mul(Get(h1[a].imag, i), s))
       IN  scaleLoop(h2, a, s, out, i + 1, n)

scaleInto(h, a, s, out) == scaleLoop(h, a, s, out, 0, len(h, a))

RECURSIVE addLoop(_, _, _, _, _, _)
addLoop(h, a, b, out, i, n) ==
  IF i >= n THEN h
  ELSE LET h1 == StoreReal(h, out, i, Add(Get(h[a].real, i), Get(h[b].real, i)))
           h2 == StoreImag(h1, out, i, Add(Get(h1[a].imag, i), Get(h1[b].imag, i)))
       IN  addLoop(h2, a, b, out, i + 1, n)

addInto(h, a, b, out) == addLoop(h, a, b, out, 0, len(h, a))

RECURSIVE subLoop(_, _, _, _, _, _)
subLoop(h, a, b, out, i, n) ==
  IF i >= n THEN h
  ELSE LET h1 == StoreReal(h, out, i, Sub(Get(h[a].real, i), Get(h[b].real, i)))
           h2 == StoreImag(h1, out, i, Sub(Get(h1[a].imag, i), Get(h1[b].imag, i)))
       IN  subLoop(h2, a, b, out, i + 1, n)

subInto(h, a, b, out) == subLoop(h, a, b, out, 0, len(h, a))

\* a product loop without the temporaries: the imaginary part is computed
\* from the operands as they are after the real part was stored
RECURSIVE mulLoopNoTemporaries(_, _, _, _, _, _)
mulLoopNoTemporaries(h, a, b, out, i, n) ==
  IF i >= n THEN h
  ELSE LET h1 == StoreReal(h, out, i,
                   Sub(Mul(Get(h[a].real, i), Get(h[b].real, i)),
                       Mul(Get(h[a].imag, i), Get(h[b].imag, i))))
           h2 == StoreImag(h1, out, i,
                   Add(Mul(Get(h1[a].real, i), Get(h1[b].imag, i)),
                       Mul(Get(h1[a].imag, i), Get(h1[b].real, i))))
       IN  mulLoopNoTemporaries(h2, a, b, out, i + 1, n)

\* ar, ai, br, bi are read before the two stores
RECURSIVE mulLoop(_, _, _, _, _, _)
mulLoop(h, a, b, out, i, n) ==
  IF i >= n THEN h
  ELSE LET ar == Get(h[a].real, i)
           ai == Get(h[a].imag, i)
           br == Get(h[b].real, i)
           bi == Get(h[b].imag, i)
           h1 == StoreReal(h, out, i, Sub(Mul(ar, br), Mul(ai, bi)))
           h2 == StoreImag(h1, out, i, Add(Mul(ar, bi), Mul(ai, br)))
       IN  mulLoop(h2, a, b, out, i + 1, n)

\* a multiplication by the conjugate of b: the sign of both products with
\* bi reversed
RECURSIVE mulLoopConjugate(_, _, _, _, _, _)
mulLoopConjugate(h, a, b, out, i, n) ==
  IF i >= n THEN h
  ELSE LET ar == Get(h[a].real, i)
           ai == Get(h[a].imag, i)
           br == Get(h[b].real, i)
           bi == Get(h[b].imag, i)
           h1 == StoreReal(h, out, i, Add(Mul(ar, br), Mul(ai, bi)))
           h2 == StoreImag(h1, out, i, Sub(Mul(ai, br), Mul(ar, bi)))
       IN  mulLoopConjugate(h2, a, b, out, i + 1, n)

mulIntoConjugate(h, a, b, out) == mulLoopConjugate(h, a, b, out, 0, len(h, a))

mulInto(h, a, b, out) == mulLoop(h, a, b, out, 0, len(h, a))

RECURSIVE mulScalarLoop(_, _, _, _, _, _, _)
mulScalarLoop(h, a, re, im, out, i, n) ==
  IF i >= n THEN h
  ELSE LET ar == Get(h[a].real, i)
           ai == Get(h[a].imag, i)
           h1 == StoreReal(h, out, i, Sub(Mul(ar, re), Mul(ai, im)))
           h2 == StoreImag(h1, out, i, Add(Mul(ar, im), Mul(ai, re)))
       IN  mulScalarLoop(h2, a, re, im, out, i + 1, n)

mulScalarInto(h, a, re, im, out) == mulScalarLoop(h, a, re, im, out, 0, len(h, a))

RECURSIVE divLoop(_, _, _, _, _, _)
divLoop(h, a, b, out, i, n) ==
  IF i >= n THEN h
  ELSE LET ar == Get(h[a].real, i)
           ai == Get(h[a].imag, i)
           br == Get(h[b].real, i)
           bi == Get(h[b].imag, i)
           denom == Add(Mul(br, br), Mul(bi, bi))
           h1 == StoreReal(h, out, i, Div(Add(Mul(ar, br), Mul(ai, bi)), denom))
           h2 == StoreImag(h1, out, i, Div(Sub(Mul(ai, br), Mul(ar, bi)), denom))
       IN  divLoop(h2, a, b, out, i + 1, n)

divInto(h, a, b, out) == divLoop(h, a, b, out, 0, len(h, a))

\* denom = re*re + im*im; mulScalarInto(a, re / denom, -im / denom, out)
divScalarInto(h, a, re, im, out) ==
  LET denom == Add(Mul(re, re), Mul(im, im))
  IN  mulScalarInto(h, a, Div(re, denom), Div(Neg(im), denom), out)

RECURSIVE conjLoop(_, _, _, _, _)
conjLoop(h, a, out, i, n) ==
  IF i >= n THEN h
  ELSE LET h1 == StoreReal(h, out, i, Get(h[a].real, i))
           h2 == StoreImag(h1, out, i, Neg(Get(h1[a].imag, i)))
       IN  conjLoop(h2, a, out, i + 1, n)

conjInto(h, a, out) == conjLoop(h, a, out, 0, len(h, a))

\* the allocating forms: the write-into form on alloc(len(a)), which becomes
\* the newest object of the heap
Fresh(h, a) == Append(h, alloc(len(h, a)))

\* scale writing into its input instead of alloc(len(a))
scaleInPlace(h, a, s) == scaleInto(h, a, s, a)

scale(h, a, s) == scaleInto(Fresh(h, a), a, s, Len(h) + 1)
add(h, a, b) == addInto(Fresh(h, a), a, b, Len(h) + 1)
sub(h, a, b) == subInto(Fresh(h, a), a, b, Len(h) + 1)
mul(h, a, b) == mulInto(Fresh(h, a), a, b, Len(h) + 1)
mulScalar(h, a, re, im) == mulScalarInto(Fresh(h, a), a, re, im, Len(h) + 1)
div(h, a, b) == divInto(Fresh(h, a), a, b, Len(h) + 1)
divScalar(h, a, re, im) == divScalarInto(Fresh(h, a), a, re, im, Len(h) + 1)
conj(h, a) == conjInto(Fresh(h, a), a, Len(h) + 1)

\* copy(a): new Float64Array(a.real) and new Float64Array(a.imag) hold
\* copies of the elements
copy(h, a) == Append(h, [real |-> Tuple(h[a].real, Len(h[a].real)),
                         imag |-> Tuple(h[a].imag, Len(h[a].imag))])

\* target.set(source): the elements of source over the first ones of target
TypedArraySet(target, source) ==
  Tuple([i \in 1..Len(target) |-> IF i <= Len(source) THEN source[i] ELSE target[i]],
        Len(target))

\* copyInto(a, out): set() throws a RangeError for a source longer than its
\* target, the first one before anything is written
copyInto(h, a, out) ==
  IF Len(h[a].real) > Len(h[out].real) THEN [status |-> "RangeError", heap |-> h]
  ELSE LET h1 == [h EXCEPT ![out].real = TypedArraySet(@, h[a].real)]
       IN  IF Len(h1[a].imag) > Len(h1[out].imag)
           THEN [status |-> "RangeError", heap |-> h1]
           ELSE [status |-> "ok",
                 heap |-> [h1 EXCEPT ![out].imag = TypedArraySet(@, h1[a].imag)]]

---------------------------------------------------------------------------
(* Calls.  Every call leaves its record in `last`: the operation, its      *)
(* buffer arguments, the outcome, the reference returned and the heap the  *)
(* call found (pre).  `input` is the real array last passed to forward.    *)

NoCall == [op |-> "none"]

Returned(op, in, out, r) ==
  [op |-> op, in |-> in, out |-> out, status |-> r.status, ret |-> r.ret,
   pre |-> heap]

CallForward(x, out) ==
  /\ plan.cls # "none"
  /\ LET r == forward(heap, KernelOf(plan), x, out)
     IN  /\ heap' = r.heap
         /\ last' = Returned("forward", 0, out, r)
  /\ input' = x
  /\ calls' = calls + 1
  /\ UNCHANGED plan

CallForwardComplex(in, out) ==
  /\ plan.cls # "none"
  /\ LET r == forwardComplex(heap, KernelOf(plan), in, out)
     IN  /\ heap' = r.heap
         /\ last' = Returned("forwardComplex", in, out, r)
  /\ calls' = calls + 1
  /\ UNCHANGED <<plan, input>>

CallInverse(in, out) ==
  /\ plan.cls # "none"
  /\ LET r == inverse(heap, KernelOf(plan), in, out)
     IN  /\ heap' = r.heap
         /\ last' = Returned("inverse", in, out, r)
  /\ calls' = calls + 1
  /\ UNCHANGED <<plan, input>>

---------------------------------------------------------------------------
(* SpecDft: a plan of each size, one real input, forward and then inverse  *)
(* of the spectrum.                                                        *)

PlanSizes == {Pow2(L) : L \in 0..MaxLog2}

SampleValues == {-1, 0, 1}

\* sums of two scaled unit impulses, the constant signal, the alternating
\* (Nyquist) signal and the ramp
DftInputs(n) ==
  {Tuple([i \in 1..n |-> Num((IF i = p THEN a ELSE 0) + (IF i = q THEN b ELSE 0))], n) :
       <<p, q, a, b>> \in (1..n) \X (1..n) \X SampleValues \X SampleValues}
  \cup {Tuple([i \in 1..n |-> One], n),
        Tuple([i \in 1..n |-> Num(IF i % 2 = 1 THEN 1 ELSE -1)], n),
        Tuple([i \in 1..n |-> Num(i - 1)], n)}

InitDft ==
  /\ plan \in {Radix2FftNew(SizeOf(n)).value : n \in PlanSizes}
  /\ heap = << >>
  /\ input = << >>
  /\ last = NoCall
  /\ calls = 0

DftForward ==
  /\ calls = 0
  /\ \E x \in DftInputs(ToIndex(plan.size)) : CallForward(x, 0)

DftInverse ==
  /\ calls = 1
  /\ last.status = "ok"
  /\ CallInverse(last.ret, 0)

NextDft == DftForward \/ DftInverse

SpecDft == InitDft /\ [][NextDft]_vars

\* the naive O(N^2) reference DFT: X[k] = SUM x[n] * exp(-2*pi*i*k*n/N)
RECURSIVE DftSum(_, _, _, _)
DftSum(x, k, n, part) ==
  IF n >= Len(x) THEN Zero
  ELSE LET t == Angle(k * n, Len(x))
           w == IF part = "real" THEN MathCos(t) ELSE Neg(MathSin(t))
       IN  Add(Mul(x[n + 1], w), DftSum(x, k, n + 1, part))

ReferenceDft(x) ==
  [real |-> Tuple([k \in 1..Len(x) |-> DftSum(x, k - 1, 0, "real")], Len(x)),
   imag |-> Tuple([k \in 1..Len(x) |-> DftSum(x, k - 1, 0, "imag")], Len(x))]

\* C1: forward(x) equals the reference DFT of x on both parts, in every bin,
\* for every plan size and every real input of that length.
C1_ForwardIsDft ==
  (last.op = "forward" /\ last.status = "ok")
    => heap[last.ret] = ReferenceDft(input)

\* C1 witness: a forward of the largest plan size on an input with two
\* non-zero samples whose spectrum has an irrational bin
C1_Witness ==
  /\ last.op = "forward" /\ last.status = "ok"
  /\ Len(input) = Pow2(MaxLog2)
  /\ Cardinality({i \in DOMAIN input : input[i] # Zero}) = 2
  /\ \E k \in DOMAIN input : ~IsRat(heap[last.ret].real[k])

\* C2: inverse(forward(x)) has real part x and imaginary part 0.
C2_RoundTrip ==
  (last.op = "inverse" /\ last.status = "ok")
    => /\ heap[last.ret].real = input
       /\ \A i \in DOMAIN input : heap[last.ret].imag[i] = Zero
       /\ Len(heap[last.ret].imag) = Len(input)

\* C2 witness: the inverse of a spectrum of the largest plan size with
\* irrational bins gave back a non-zero input
C2_Witness ==
  /\ last.op = "inverse" /\ last.status = "ok"
  /\ Len(input) = Pow2(MaxLog2)
  /\ \E i \in DOMAIN input : input[i] # Zero
  /\ \E k \in DOMAIN input : ~IsRat(heap[last.in].real[k])
  /\ heap[last.ret].real = input

---------------------------------------------------------------------------
(* Spec: the kernel API.  The caller constructs one plan of any of the     *)
(* three classes, creates buffers of its own, and calls forward,           *)
(* forwardComplex and inverse with and without an output buffer.           *)

SizeInputs ==
  {SizeOf(n) : n \in -1..MaxSize} \cup {Half(n) : n \in {2 * j + 1 : j \in 0..(MaxSize - 1)}}

Classes == {"Radix2Fft", "FFT", "FluentFFT"}

Construct(cls, size) ==
  IF cls = "Radix2Fft" THEN Radix2FftNew(size)
  ELSE IF cls = "FFT" THEN FFTNew(size)
  ELSE FluentFFTNew(size)

Fills == {0, 1}

\* the real inputs of the API calls: the ramp 1, 2, ..., n of every length
KernelInputs == {Tuple([i \in 1..n |-> Num(i)], n) : n \in 0..MaxSize}

Init ==
  /\ plan = NoPlan
  /\ heap = << >>
  /\ input = << >>
  /\ last = NoCall
  /\ calls = 0

\* new Radix2Fft(size), new FFT(size), new FluentFFT(size)
NewPlan ==
  /\ plan.cls = "none"
  /\ calls = 0
  /\ \E cls \in Classes, size \in SizeInputs :
       LET r == Construct(cls, size)
       IN  /\ plan' = IF r.ok THEN r.value ELSE plan
           /\ last' = [op |-> "new", cls |-> cls, size |-> size,
                       status |-> IF r.ok THEN "ok" ELSE r.error]
  /\ UNCHANGED <<heap, input, calls>>

\* the caller's createComplexArray(size, fill)
Alloc ==
  /\ Len(heap) < MaxBufs
  /\ calls = 0
  /\ \E size \in 1..MaxSize, fill \in Fills :
       /\ heap' = Append(heap, createComplexArray(size, Num(fill)))
       /\ last' = [op |-> "createComplexArray", size |-> size, fill |-> fill,
                   status |-> "ok", ret |-> Len(heap) + 1]
  /\ UNCHANGED <<plan, input, calls>>

\* a ComplexArray literal whose imaginary part is one element short
AllocRagged ==
  /\ Len(heap) < MaxBufs
  /\ calls = 0
  /\ \E size \in 1..MaxSize :
       /\ heap' = Append(heap, [real |-> Tuple([i \in 1..size |-> One], size),
                                imag |-> Tuple([i \in 1..(size - 1) |-> One], size - 1)])
       /\ last' = [op |-> "literal", size |-> size, status |-> "ok",
                   ret |-> Len(heap) + 1]
  /\ UNCHANGED <<plan, input, calls>>

Forward ==
  /\ calls < MaxCalls
  /\ \E x \in KernelInputs, out \in 0..Len(heap) : CallForward(x, out)

ForwardComplex ==
  /\ calls < MaxCalls
  /\ \E in \in 1..Len(heap), out \in 0..Len(heap) : CallForwardComplex(in, out)

Inverse ==
  /\ calls < MaxCalls
  /\ \E in \in 1..Len(heap), out \in 0..Len(heap) : CallInverse(in, out)

Next == NewPlan \/ Alloc \/ AllocRagged \/ Forward \/ ForwardComplex \/ Inverse

Spec == Init /\ [][Next]_vars
---------------------------------------------------------------------------
(* Properties of the kernel API *)

TransformOps == {"forward", "forwardComplex", "inverse"}

IsTransform == last.op \in TransformOps

\* the size of a plan as a length, or -1 when it is not an integer
PlanLength == LET s == KernelOf(plan).size IN IF s.den = 1 THEN s.num ELSE -1

PositivePowerOfTwo(s) == s.den = 1 /\ \E L \in 0..MaxSize : s.num = Pow2(L)

\* C3: a size that is not a positive power of two is refused with
\* InvalidSize and leaves no plan; a positive power of two gives a plan of
\* the requested class whose size is the requested size.
C3_SizeContract ==
  last.op = "new" =>
    IF PositivePowerOfTwo(last.size)
    THEN last.status = "ok" /\ plan.cls = last.cls /\ plan.size = last.size
    ELSE last.status = "InvalidSize" /\ plan = NoPlan

\* the arrays a transform call was given
ArgReal == IF last.op = "forward" THEN input ELSE last.pre[last.in].real
ArgImagDiffers ==
  last.op # "forward" /\ Len(last.pre[last.in].imag) # PlanLength

InputLengthWrong == Len(ArgReal) # PlanLength \/ ArgImagDiffers

\* C4: a transform whose input length (real part, or imaginary part of a
\* complex input) differs from the plan size fails with InvalidLength and
\* leaves every buffer, the output buffer included, as it was.
C4_InputLengthChecked ==
  (IsTransform /\ InputLengthWrong)
    => (last.status = "InvalidLength" /\ heap = last.pre)

\* C4 witness: an inverse whose input has the right real length and a short
\* imaginary part was refused, with a distinct output buffer of the plan's
\* length passed in
C4_Witness ==
  /\ last.op = "inverse" /\ last.status = "InvalidLength"
  /\ PlanLength >= 2
  /\ Len(last.pre[last.in].real) = PlanLength
  /\ Len(last.pre[last.in].imag) # PlanLength
  /\ last.out # 0 /\ last.out # last.in
  /\ Len(heap[last.out].real) = PlanLength
  /\ \E i \in DOMAIN heap[last.out].real : heap[last.out].real[i] # Zero

OutputLengthWrong ==
  /\ last.out # 0
  /\ \/ Len(last.pre[last.out].real) # PlanLength
     \/ Len(last.pre[last.out].imag) # PlanLength

\* C5: a transform given an output buffer whose length differs from the
\* plan size fails with InvalidLength.
C5_OutputLengthChecked ==
  (IsTransform /\ OutputLengthWrong) => last.status = "InvalidLength"

\* the call recorded in `last`, made again on the heap it found but without
\* an output buffer
SameCallWithoutOut ==
  IF last.op = "forward" THEN forward(last.pre, KernelOf(plan), input, 0)
  ELSE IF last.op = "forwardComplex"
    THEN forwardComplex(last.pre, KernelOf(plan), last.in, 0)
  ELSE inverse(last.pre, KernelOf(plan), last.in, 0)

WroteIntoOut ==
  /\ IsTransform /\ last.status = "ok"
  /\ last.out # 0 /\ last.out # last.in
  /\ ~OutputLengthWrong

\* C6: a transform given an output buffer of the plan's length, distinct
\* from the input, returns that buffer, and the buffer ends up holding what
\* the same call without an output buffer returns, whatever it held before.
C6_OutputBufferOverwritten ==
  WroteIntoOut =>
    /\ last.ret = last.out
    /\ LET r == SameCallWithoutOut
       IN  r.status = "ok" /\ heap[last.out] = r.heap[r.ret]

\* C6 witness: the second transform of a behaviour, an inverse of a size-4
\* spectrum, wrote into a buffer that held no zero before
C6_Witness ==
  /\ WroteIntoOut /\ last.op = "inverse" /\ calls = 2
  /\ PlanLength = 4
  /\ \A i \in 1..4 : /\ last.pre[last.out].real[i] # Zero
                     /\ last.pre[last.out].imag[i] # Zero
  /\ heap[last.out] # last.pre[last.out]

---------------------------------------------------------------------------
(* SpecArith: two caller buffers a and b, and one arithmetic call, in its  *)
(* write-into form (out any of the two buffers) or its allocating form.    *)

\* the buffer of n elements (re + k) + i*(im - k), k = 0 .. n-1
ArithBuffer(n, re, im) ==
  [real |-> Tuple([k \in 1..n |-> Num(re + k - 1)], n),
   imag |-> Tuple([k \in 1..n |-> Num(im - (k - 1))], n)]

ArithBuffers ==
  {ArithBuffer(n, re, im) : <<n, re, im>> \in (1..MaxLen) \X {0, 2} \X {0, -1}}

RealScalars == {Zero, Num(2), Rat(1, 2)}

ComplexScalars == {<<Zero, Zero>>, <<One, One>>, <<Zero, Num(2)>>, <<Num(2), Num(-1)>>}

InitArith ==
  /\ plan = NoPlan
  /\ heap \in {<<a, b>> : <<a, b>> \in ArithBuffers \X ArithBuffers}
  /\ input = << >>
  /\ last = NoCall
  /\ calls = 0

\* the call op(a, b, ..., out) took the heap to h and returned reference ret
ArithCall(op, a, b, s, z, out, h, ret) ==
  /\ calls = 0
  /\ heap' = h
  /\ last' = [op |-> op, a |-> a, b |-> b, s |-> s, re |-> z[1], im |-> z[2],
              out |-> out, status |-> "ok", ret |-> ret, pre |-> heap]
  /\ calls' = calls + 1
  /\ UNCHANGED <<plan, input>>

NoScalar == <<Zero, Zero>>
Refs == 1..Len(heap)

ScaleInto == \E a \in Refs, out \in Refs, s \in RealScalars :
  ArithCall("scaleInto", a, 0, s, NoScalar, out, scaleInto(heap, a, s, out), out)
AddInto == \E a \in Refs, b \in Refs, out \in Refs :
  ArithCall("addInto", a, b, Zero, NoScalar, out, addInto(heap, a, b, out), out)
SubInto == \E a \in Refs, b \in Refs, out \in Refs :
  ArithCall("subInto", a, b, Zero, NoScalar, out, subInto(heap, a, b, out), out)
MulInto == \E a \in Refs, b \in Refs, out \in Refs :
  ArithCall("mulInto", a, b, Zero, NoScalar, out, mulInto(heap, a, b, out), out)
MulScalarInto == \E a \in Refs, out \in Refs, z \in ComplexScalars :
  ArithCall("mulScalarInto", a, 0, Zero, z, out,
            mulScalarInto(heap, a, z[1], z[2], out), out)
DivInto == \E a \in Refs, b \in Refs, out \in Refs :
  ArithCall("divInto", a, b, Zero, NoScalar, out, divInto(heap, a, b, out), out)
DivScalarInto == \E a \in Refs, out \in Refs, z \in ComplexScalars :
  ArithCall("divScalarInto", a, 0, Zero, z, out,
            divScalarInto(heap, a, z[1], z[2], out), out)
ConjInto == \E a \in Refs, out \in Refs :
  ArithCall("conjInto", a, 0, Zero, NoScalar, out, conjInto(heap, a, out), out)

ScaleNew == \E a \in Refs, s \in RealScalars :
  ArithCall("scale", a, 0, s, NoScalar, 0, scale(heap, a, s), Len(heap) + 1)
AddNew == \E a \in Refs, b \in Refs :
  ArithCall("add", a, b, Zero, NoScalar, 0, add(heap, a, b), Len(heap) + 1)
SubNew == \E a \in Refs, b \in Refs :
  ArithCall("sub", a, b, Zero, NoScalar, 0, sub(heap, a, b), Len(heap) + 1)
MulNew == \E a \in Refs, b \in Refs :
  ArithCall("mul", a, b, Zero, NoScalar, 0, mul(heap, a, b), Len(heap) + 1)
MulScalarNew == \E a \in Refs, z \in ComplexScalars :
  ArithCall("mulScalar", a, 0, Zero, z, 0, mulScalar(heap, a, z[1], z[2]),
            Len(heap) + 1)
DivNew == \E a \in Refs, b \in Refs :
  ArithCall("div", a, b, Zero, NoScalar, 0, div(heap, a, b), Len(heap) + 1)
DivScalarNew == \E a \in Refs, z \in ComplexScalars :
  ArithCall("divScalar", a, 0, Zero, z, 0, divScalar(heap, a, z[1], z[2]),
            Len(heap) + 1)
ConjNew == \E a \in Refs :
  ArithCall("conj", a, 0, Zero, NoScalar, 0, conj(heap, a), Len(heap) + 1)

CopyNew == \E a \in Refs :
  ArithCall("copy", a, 0, Zero, NoScalar, 0, copy(heap, a), Len(heap) + 1)

CopyInto == \E a \in Refs, out \in Refs :
  \E r \in {copyInto(heap, a, out)} :
    /\ calls = 0
    /\ heap' = r.heap
    /\ last' = [op |-> "copyInto", a |-> a, b |-> 0, s |-> Zero,
                re |-> Zero, im |-> Zero, out |-> out, status |-> r.status,
                ret |-> IF r.status = "ok" THEN out ELSE 0, pre |-> heap]
    /\ calls' = calls + 1
    /\ UNCHANGED <<plan, input>>

NextArith ==
  \/ ScaleInto \/ AddInto \/ SubInto \/ MulInto
  \/ MulScalarInto \/ DivInto \/ DivScalarInto \/ ConjInto
  \/ ScaleNew \/ AddNew \/ SubNew \/ MulNew
  \/ MulScalarNew \/ DivNew \/ DivScalarNew \/ ConjNew
  \/ CopyNew \/ CopyInto

SpecArith == InitArith /\ [][NextArith]_vars

IntoOps == {"scaleInto", "addInto", "subInto", "mulInto", "mulScalarInto",
            "divInto", "divScalarInto", "conjInto"}

BinaryOps == {"add", "sub", "mul", "div", "addInto", "subInto", "mulInto", "divInto"}

\* what the allocating form of the write-into call in `last` returns for
\* the buffers the call found
AllocatingResult ==
  LET p == last.pre
      h == CASE last.op = "scaleInto" -> scale(p, last.a, last.s)
             [] last.op = "addInto" -> add(p, last.a, last.b)
             [] last.op = "subInto" -> sub(p, last.a, last.b)
             [] last.op = "mulInto" -> mul(p, last.a, last.b)
             [] last.op = "mulScalarInto" -> mulScalar(p, last.a, last.re, last.im)
             [] last.op = "divInto" -> div(p, last.a, last.b)
             [] last.op = "divScalarInto" -> divScalar(p, last.a, last.re, last.im)
             [] last.op = "conjInto" -> conj(p, last.a)
  IN  h[Len(h)]

Aliased ==
  /\ last.op \in IntoOps
  /\ last.out = last.a \/ (last.op \in BinaryOps /\ last.out = last.b)
  /\ last.op \in BinaryOps => len(last.pre, last.a) = len(last.pre, last.b)

\* C7: a write-into op run with out aliased to its first input (or, for a
\* binary op, its second) on inputs of equal length leaves out holding what
\* the allocating form returns for the original inputs.
C7_InPlaceAliasing ==
  Aliased => (last.ret = last.out /\ heap[last.out] = AllocatingResult)

\* C7 witness: mulInto(a, b, b) on two different two-element buffers changed b
C7_Witness ==
  /\ Aliased /\ last.op = "mulInto"
  /\ last.out = last.b /\ last.a # last.b
  /\ len(last.pre, last.a) = 2
  /\ last.pre[last.a] # last.pre[last.b]
  /\ heap[last.b].real # last.pre[last.b].real
  /\ heap[last.b].imag # last.pre[last.b].imag

LengthsDiffer ==
  \/ len(last.pre, last.a) # len(last.pre, last.b)
  \/ last.out # 0 /\ len(last.pre, last.out) # len(last.pre, last.a)

\* C8: an elementwise add, sub, mul or div (either form) whose operand
\* buffers a, b and out do not all have one length fails with InvalidLength.
C8_LengthMismatchFails ==
  (last.op \in BinaryOps /\ LengthsDiffer) => last.status = "InvalidLength"

AllocatingOps == {"scale", "add", "sub", "mul", "mulScalar", "div", "divScalar",
                  "conj", "copy"}

\* C18: the allocating forms (scale, add, sub, mul, mulScalar, div,
\* divScalar, conj, copy) return a newly allocated buffer, none of the
\* buffers that existed before the call, and leave every such buffer
\* unchanged; the write-into forms return the out buffer they were given.
C18_FreshOrOut ==
  /\ last.op \in AllocatingOps
       => /\ last.status = "ok"
          /\ last.ret \in DOMAIN heap
          /\ last.ret \notin DOMAIN last.pre
          /\ \A r \in DOMAIN last.pre : heap[r] = last.pre[r]
  /\ last.op \in IntoOps \cup {"copyInto"} /\ last.status = "ok"
       => /\ last.ret = last.out
          /\ DOMAIN heap = DOMAIN last.pre

\* scale(a, 2) has returned a third buffer, other than a, and a is as it was
C18_Witness ==
  /\ last.op = "scale" /\ last.s = Num(2)
  /\ last.ret = 3 /\ Len(heap) = 3
  /\ heap[3] # heap[last.a]
  /\ heap[last.a] = last.pre[last.a]

\* copy(a) has returned a third buffer with the elements of a
C18_WitnessCopy ==
  /\ last.op = "copy" /\ last.ret = 3
  /\ heap[3] = last.pre[last.a]
  /\ len(heap, 3) = 2

---------------------------------------------------------------------------
(* SpecSpectrum: the tail of spectrum(): the magnitudes of a size-point    *)
(* transform are scaled to amplitudes, the bin frequencies are built and   *)
(* the peak is searched.  `input` holds the magnitudes.                    *)

\* a > b on rational numbers and roots; a comparison with NaN is false.
\* Roots are positive: they are compared with non-negative numbers by
\* their squares.
Greater(a, b) ==
  /\ ~IsNaN(a) /\ ~IsNaN(b)
  /\ IF ~IsRoot(a) /\ ~IsRoot(b) THEN a.c[1] * b.d > b.c[1] * a.d
     ELSE IF ~IsRoot(a) /\ a.c[1] < 0 THEN FALSE
     ELSE IF ~IsRoot(b) /\ b.c[1] < 0 THEN TRUE
     ELSE LET an == IF IsRoot(a) THEN a.c[1] ELSE a.c[1] * a.c[1]
              ad == IF IsRoot(a) THEN a.d ELSE a.d * a.d
              bn == IF IsRoot(b) THEN b.c[1] ELSE b.c[1] * b.c[1]
              bd == IF IsRoot(b) THEN b.d ELSE b.d * b.d
          IN  an * bd > bn * ad

\* a one-sided scaling that doubles the Nyquist bin like any other bin
scaleOneSidedBinNyquistDoubled(magnitudes, size, k) ==
  LET mag == GetOrZero(magnitudes, k)
  IN  IF k = 0
      THEN Div(mag, Num(size))
      ELSE Div(Mul(Num(2), mag), Num(size))

\* magnitudes[k] ?? 0, k counted from 0
scaleOneSidedBin(magnitudes, size, k) ==
  LET nyquist == IF size % 2 = 0 THEN size \div 2 ELSE -1
      mag == GetOrZero(magnitudes, k)
  IN  IF k = 0 \/ k = nyquist
      THEN Div(mag, Num(size))
      ELSE Div(Mul(Num(2), mag), Num(size))

scaleAmplitudeOneSided(magnitudes, size) ==
  LET binCount == (size \div 2) + 1
  IN  Tuple([k \in 1..binCount |-> scaleOneSidedBin(magnitudes, size, k - 1)],
            binCount)

scaleAmplitudeTwoSided(magnitudes, size) ==
  Tuple([k \in 1..size |-> Div(GetOrZero(magnitudes, k - 1), Num(size))], size)

\* [status |-> "InvalidArgument"] when binFrequencies throws
\* binFrequencies without the check of sampleRate
binFrequenciesRateUnchecked(size, sampleRate, sides) ==
  IF size <= 0
  THEN [status |-> "InvalidArgument"]
  ELSE LET binCount == IF sides = "one" THEN (size \div 2) + 1 ELSE size
           scale0 == Div(Num(sampleRate), Num(size))
       IN  [status |-> "ok",
            value |-> Tuple([i \in 1..binCount |-> Mul(Num(i - 1), scale0)],
                            binCount)]

binFrequencies(size, sampleRate, sides) ==
  IF size <= 0 \/ sampleRate <= 0
  THEN [status |-> "InvalidArgument"]
  ELSE LET binCount == IF sides = "one" THEN (size \div 2) + 1 ELSE size
           scale0 == Div(Num(sampleRate), Num(size))
       IN  [status |-> "ok",
            value |-> Tuple([i \in 1..binCount |-> Mul(Num(i - 1), scale0)],
                            binCount)]

\* a peak loop that moves to a later bin of equal amplitude (>= for >)
RECURSIVE findPeakLoopLastMax(_, _, _)
findPeakLoopLastMax(amplitude, i, s) ==
  IF i >= Len(amplitude) THEN s
  ELSE LET v == GetOrZero(amplitude, i)
           nonDc == ~Greater(s.nonDcValue, v)
           isMax == ~Greater(s.maxValue, v)
       IN  findPeakLoopLastMax(amplitude, i + 1,
             [nonDcValue |-> IF nonDc THEN v ELSE s.nonDcValue,
              nonDcIndex |-> IF nonDc THEN i ELSE s.nonDcIndex,
              hasNonDc |-> s.hasNonDc \/ Greater(v, Zero),
              maxValue |-> IF isMax THEN v ELSE s.maxValue,
              maxIndex |-> IF isMax THEN i ELSE s.maxIndex])

RECURSIVE findPeakLoop(_, _, _)
findPeakLoop(amplitude, i, s) ==
  IF i >= Len(amplitude) THEN s
  ELSE LET v == GetOrZero(amplitude, i)
           nonDc == Greater(v, s.nonDcValue)
           isMax == Greater(v, s.maxValue)
       IN  findPeakLoop(amplitude, i + 1,
             [nonDcValue |-> IF nonDc THEN v ELSE s.nonDcValue,
              nonDcIndex |-> IF nonDc THEN i ELSE s.nonDcIndex,
              hasNonDc |-> s.hasNonDc \/ Greater(v, Zero),
              maxValue |-> IF isMax THEN v ELSE s.maxValue,
              maxIndex |-> IF isMax THEN i ELSE s.maxIndex])

\* a peak search that returns the overall maximum, the DC bin included
findPeakOverallMax(amplitude, frequencies) ==
  LET s == findPeakLoop(amplitude, 1,
             [maxIndex |-> 0, maxValue |-> GetOrZero(amplitude, 0),
              hasNonDc |-> FALSE, nonDcIndex |-> 0, nonDcValue |-> Zero])
  IN  [index |-> s.maxIndex,
       frequency |-> GetOrZero(frequencies, s.maxIndex),
       amplitude |-> GetOrZero(amplitude, s.maxIndex),
       phase |-> Zero]

findPeak(amplitude, frequencies) ==
  LET s == findPeakLoop(amplitude, 1,
             [maxIndex |-> 0, maxValue |-> GetOrZero(amplitude, 0),
              hasNonDc |-> FALSE, nonDcIndex |-> 0, nonDcValue |-> Zero])
      index == IF s.hasNonDc THEN s.nonDcIndex ELSE s.maxIndex
  IN  [index |-> index,
       frequency |-> GetOrZero(frequencies, index),
       amplitude |-> GetOrZero(amplitude, index),
       phase |-> Zero]

FrameSizes == {Pow2(L) : L \in 0..MaxFrameLog2}
MagnitudeValues == {0, 1, 3}
SampleRates == {0, 1, 8}

InitSpectrum ==
  /\ plan = NoPlan
  /\ heap = << >>
  /\ \E n \in FrameSizes :
       input \in {Tuple([k \in 1..n |-> Num(m[k])], n) :
                    m \in [1..n -> MagnitudeValues]}
  /\ last = NoCall
  /\ calls = 0

Scaled(sides, amplitude) ==
  /\ calls = 0
  /\ last' = [op |-> "scaleAmplitude", sides |-> sides, size |-> Len(input),
              amplitude |-> amplitude, status |-> "ok"]
  /\ calls' = calls + 1
  /\ UNCHANGED <<plan, heap, input>>

ScaleAmplitudeOneSided ==
  Scaled("one", scaleAmplitudeOneSided(input, Len(input)))

ScaleAmplitudeTwoSided ==
  Scaled("two", scaleAmplitudeTwoSided(input, Len(input)))

\* spectrum() lines 342-343: the frequencies, then the peak
FindPeak ==
  /\ last.op = "scaleAmplitude"
  /\ \E sampleRate \in SampleRates :
       LET f == binFrequencies(last.size, sampleRate, last.sides)
       IN  last' = IF f.status = "ok"
                   THEN [op |-> "findPeak", sides |-> last.sides,
                         size |-> last.size, amplitude |-> last.amplitude,
                         frequencies |-> f.value, status |-> "ok",
                         peak |-> findPeak(last.amplitude, f.value)]
                   ELSE [op |-> "binFrequencies", sides |-> last.sides,
                         size |-> last.size, status |-> "InvalidArgument"]
  /\ calls' = calls + 1
  /\ UNCHANGED <<plan, heap, input>>

NextSpectrum == ScaleAmplitudeOneSided \/ ScaleAmplitudeTwoSided \/ FindPeak

SpecSpectrum == InitSpectrum /\ [][NextSpectrum]_vars

\* the bins k >= 1 of the amplitude array in `last` that are strictly positive
PositiveNonDc ==
  {k \in 1..(Len(last.amplitude) - 1) : Greater(last.amplitude[k + 1], Zero)}

\* C9: peak rule.  When some bin k >= 1 of the amplitude array is strictly
\* positive the peak index is one of the bins k >= 1 and no bin k >= 1 is
\* larger than it, whatever amp[0] is; when no bin k >= 1 is strictly positive
\* the peak is bin 0 with amplitude amp[0] and frequency 0.
C9_PeakRule ==
  last.op = "findPeak" =>
    LET amp == last.amplitude
        peak == last.peak
    IN  IF PositiveNonDc # {}
        THEN /\ peak.index \in PositiveNonDc
             /\ \A k \in 1..(Len(amp) - 1) : ~Greater(amp[k + 1], amp[peak.index + 1])
             /\ peak.amplitude = amp[peak.index + 1]
        ELSE /\ peak.index = 0
             /\ peak.amplitude = amp[1]
             /\ peak.frequency = Zero

\* C9 witness: a spectrum whose DC bin is larger than every other bin and
\* whose largest other bin is not the first one; the peak is that other bin
C9_Witness ==
  /\ last.op = "findPeak"
  /\ PositiveNonDc # {}
  /\ \A k \in 1..(Len(last.amplitude) - 1) :
       Greater(last.amplitude[1], last.amplitude[k + 1])
  /\ last.peak.index > 1
  /\ Greater(last.peak.frequency, Zero)

\* the bins k >= 1 that are strictly positive and that no bin k >= 1 exceeds
MaximalNonDc ==
  {k \in PositiveNonDc :
     \A j \in PositiveNonDc : ~Greater(last.amplitude[j + 1], last.amplitude[k + 1])}

\* C29: among the bins k >= 1 that share the maximal strictly positive
\* amplitude the peak is the smallest; the peak is never a bin k >= 1 of
\* amplitude 0 and never bin 0 when some bin k >= 1 is strictly positive.
C29_PeakTieBreak ==
  last.op = "findPeak" =>
    /\ MaximalNonDc # {} =>
         /\ last.peak.index \in MaximalNonDc
         /\ \A k \in MaximalNonDc : last.peak.index <= k
    /\ last.peak.index >= 1 => Greater(last.amplitude[last.peak.index + 1], Zero)
    /\ PositiveNonDc # {} => last.peak.index # 0

\* C29 witness: a two-sided spectrum whose bins k and N - k share the
\* maximal amplitude, below the DC bin; the peak is k
C29_Witness ==
  /\ last.op = "findPeak" /\ last.sides = "two" /\ last.size = 4
  /\ MaximalNonDc = {1, 3}
  /\ Greater(last.amplitude[1], last.amplitude[2])
  /\ Greater(last.amplitude[2], last.amplitude[3])
  /\ last.peak.index = 1

\* C29 witness: every bin k >= 1 is 0 and the peak is bin 0
C29_WitnessOnlyDc ==
  /\ last.op = "findPeak" /\ last.size = 4
  /\ PositiveNonDc = {} /\ last.peak.index = 0
  /\ Greater(last.amplitude[1], Zero)

\* |X[k]| * factor / N for the magnitudes in `input`
Expected(k, factor) == Rat(factor * input[k + 1].c[1], Len(input))

\* C10: amplitude scaling.  One-sided output has floor(N/2) + 1 bins,
\* amp[k] = |X[k]|/N for k = 0 and (N even) k = N/2, and 2|X[k]|/N for every
\* other bin; two-sided output has N bins, amp[k] = |X[k]|/N.
C10_AmplitudeScaling ==
  last.op = "scaleAmplitude" =>
    LET N == last.size
        amp == last.amplitude
    IN  IF last.sides = "one"
        THEN /\ Len(amp) = (N \div 2) + 1
             /\ \A k \in 0..(N \div 2) :
                  amp[k + 1] = IF k = 0 \/ (N % 2 = 0 /\ 2 * k = N)
                               THEN Expected(k, 1) ELSE Expected(k, 2)
        ELSE /\ Len(amp) = N
             /\ \A k \in 0..(N - 1) : amp[k + 1] = Expected(k, 1)

\* C10 witness: a one-sided scaling of a frame of more than two samples with
\* non-zero DC, Nyquist and interior magnitudes
C10_Witness ==
  /\ last.op = "scaleAmplitude" /\ last.sides = "one"
  /\ last.size > 2
  /\ \A k \in 1..last.size : input[k] # Zero
  /\ last.amplitude[2] = Expected(1, 2)
  /\ last.amplitude[(last.size \div 2) + 1] = Expected(last.size \div 2, 1)

---------------------------------------------------------------------------
(* SpecNextPow2: nextPowerOfTwo(n), one loop iteration per step.  p is a   *)
(* number that `p <<= 1` passes through a 32-bit integer.                   *)

\* p << 1 for p in -2^31 .. 2^31 - 1
ShiftLeft1(p) ==
  LET low == IF p < 0 THEN (p + Pow2(30)) + Pow2(30) ELSE p
  IN  IF low < Pow2(30) THEN 2 * low
      ELSE (2 * (low - Pow2(30)) - Pow2(30)) - Pow2(30)

\* while (p < n) p <<= 1; return p
RECURSIVE nextPowerOfTwoLoop(_, _)
nextPowerOfTwoLoop(n, p) ==
  IF p < n THEN nextPowerOfTwoLoop(n, ShiftLeft1(p)) ELSE p

\* nextPowerOfTwo(n) for the n on which the loop ends
nextPowerOfTwo(n) == IF n <= 1 THEN 1 ELSE nextPowerOfTwoLoop(n, 1)

\* array lengths: the short ones, and those around 2^29 and 2^30
LengthInputs ==
  (0..(MaxSize + 1))
    \cup {Pow2(29) + 1, Pow2(30) - 1, Pow2(30), Pow2(30) + 1, Pow2(30) + (Pow2(30) - 1)}

InitNextPow2 ==
  /\ plan = NoPlan
  /\ heap = << >>
  /\ input = << >>
  /\ last = NoCall
  /\ calls = 0

\* the call, up to the first test of the loop condition
NextPowerOfTwoCall ==
  /\ last.op = "none"
  /\ \E n \in LengthInputs :
       last' = IF n <= 1
               THEN [op |-> "nextPowerOfTwo", n |-> n, p |-> 1, status |-> "ok"]
               ELSE [op |-> "nextPowerOfTwo", n |-> n, p |-> 1, status |-> "running"]
  /\ UNCHANGED <<plan, heap, input, calls>>

\* one test of `p < n`: another shift, or the return
NextPowerOfTwoStep ==
  /\ last.op = "nextPowerOfTwo" /\ last.status = "running"
  /\ last' = IF last.p < last.n
             THEN [last EXCEPT !.p = ShiftLeft1(last.p)]
             ELSE [last EXCEPT !.status = "ok"]
  /\ UNCHANGED <<plan, heap, input, calls>>

NextNextPow2 == NextPowerOfTwoCall \/ NextPowerOfTwoStep

SpecNextPow2 == InitNextPow2 /\ [][NextNextPow2]_vars /\ WF_vars(NextNextPow2)

IsPowerOfTwoValue(p) == \E L \in 0..30 : p = Pow2(L)

\* C13: for every array length n, nextPowerOfTwo(n) returns, and what it
\* returns is a power of two p with p >= n and p/2 < n (1 for n <= 1).
C13_NextPowerOfTwo ==
  /\ [](last.op = "nextPowerOfTwo" /\ last.status = "ok"
          => /\ IsPowerOfTwoValue(last.p)
             /\ last.p >= last.n
             /\ (last.n <= 1 => last.p = 1)
             /\ (last.p > 1 => last.p \div 2 < last.n))
  /\ [](last.op = "nextPowerOfTwo"
          => <>(last.op = "nextPowerOfTwo" /\ last.status = "ok"))

---------------------------------------------------------------------------
(* Windows and frames.  Float64Arrays the caller can pass again (frames,   *)
(* windows, output buffers) live on a heap of arrays and are named by      *)
(* reference; reference 0 is an omitted argument.                          *)

WindowTypes == {"rect", "hann", "hamming", "blackman"}

\* Math.cos(2 * PI * p / q) where it is a number of the model: q divides the
\* root order, or q is 3 or 6
CosTurn(p, q) ==
  LET m == Abs(q)
      r == p % m
  IN  CASE RootOrder % m = 0 -> MathCos(Angle(r, m))
        [] m = 3 -> IF r = 0 THEN One ELSE Rat(-1, 2)
        [] m = 6 -> Rat(CASE r = 0 -> 2 [] r \in {1, 5} -> 1
                          [] r \in {2, 4} -> -1 [] r = 3 -> -2, 2)

\* out[i] of a hann, hamming or blackman window: the angle
\* 2 * PI * i / (size - 1) is i * den turns over num - den
WindowValue(type, i, size) ==
  LET c == CosTurn(i * size.den, size.num - size.den)
      c2 == CosTurn(2 * i * size.den, size.num - size.den)
  IN  CASE type = "hann" -> Mul(Rat(1, 2), Sub(One, c))
        [] type = "hamming" -> Sub(Rat(27, 50), Mul(Rat(23, 50), c))
        [] type = "blackman" ->
             Add(Sub(Rat(21, 50), Mul(Rat(1, 2), c)), Mul(Rat(2, 25), c2))

\* createWindow(type, size): the error thrown, or the new array
createWindow(type, size) ==
  IF size.num <= 0 THEN [status |-> "InvalidSize"]
  ELSE IF size = SizeOf(1) THEN [status |-> "ok", value |-> <<One>>]
  ELSE IF type \notin WindowTypes THEN [status |-> "UnknownWindow"]
  ELSE LET n == ToIndex(size)
       IN  [status |-> "ok",
            value |-> Tuple([i \in 1..n |->
                               IF type = "rect" THEN One
                               ELSE WindowValue(type, i - 1, size)], n)]

\* a frame assembly whose copy loop stops one sample early
buildFrameShort(samples, size) ==
  LET n == ToIndex(size)
  IN  Tuple([i \in 1..n |->
               IF i * size.den < size.num /\ i < Len(samples)
               THEN GetOrZero(samples, i - 1) ELSE Zero], n)

\* buildFrame(input, size): frame[i] = input[i] ?? 0 for i < min(size, length)
buildFrame(samples, size) ==
  LET n == ToIndex(size)
  IN  Tuple([i \in 1..n |->
               IF (i - 1) * size.den < size.num /\ i - 1 < Len(samples)
               THEN GetOrZero(samples, i - 1) ELSE Zero], n)

\* for (i = 0; i < input.length; i++) result[i] = (input[i] ?? 0) * (window[i] ?? 0)
RECURSIVE applyWindowLoop(_, _, _, _, _)
applyWindowLoop(h, in, w, result, i) ==
  IF i >= Len(h[in]) THEN h
  ELSE applyWindowLoop(
         [h EXCEPT ![result] = Put(@, i, Mul(GetOrZero(h[in], i), GetOrZero(h[w], i)))],
         in, w, result, i + 1)

\* applyWindow(input, window, out) on the heap h of arrays
applyWindow(h, in, w, out) ==
  IF Len(h[in]) # Len(h[w])
  THEN [status |-> "InvalidLength", ret |-> 0, heap |-> h]
  ELSE LET n == Len(h[in])
           h0 == IF out = 0 THEN Append(h, Tuple([i \in 1..n |-> Zero], n)) ELSE h
           result == IF out = 0 THEN Len(h) + 1 ELSE out
       IN  [status |-> "ok", ret |-> result,
            heap |-> applyWindowLoop(h0, in, w, result, 0)]

---------------------------------------------------------------------------
(* SpecWindow: the caller builds a frame and a window, may create an       *)
(* output array, and applies a window.                                     *)

\* the ramp 1, 2, ..., n
Ramp(n) == Tuple([i \in 1..n |-> Num(i)], n)

SampleInputs == {Ramp(n) : n \in 0..(MaxSize + 1)}

\* the window sizes: the integers from -1 and the halves 1/2, 3/2, 5/2
WindowSizes == {SizeOf(n) : n \in -1..MaxSize} \cup {Half(1), Half(3), Half(5)}

\* the frame sizes of spectrum(): the sizes new FFT(size) accepts
FrameSizeInputs == {size \in WindowSizes : isPowerOfTwo(size)}

InitWindow ==
  /\ plan = NoPlan
  /\ heap = << >>
  /\ input = << >>
  /\ last = NoCall
  /\ calls = 0

BuildFrame ==
  /\ Len(heap) = 0
  /\ \E samples \in SampleInputs, size \in FrameSizeInputs :
       /\ input' = samples
       /\ heap' = <<buildFrame(samples, size)>>
       /\ last' = [op |-> "buildFrame", size |-> size, status |-> "ok", ret |-> 1]
  /\ UNCHANGED <<plan, calls>>

CreateWindow ==
  /\ Len(heap) = 1 /\ last.op = "buildFrame"
  /\ \E type \in WindowTypes \cup {"kaiser"}, size \in WindowSizes :
       LET r == createWindow(type, size)
       IN  /\ heap' = IF r.status = "ok" THEN Append(heap, r.value) ELSE heap
           /\ last' = [op |-> "createWindow", type |-> type, size |-> size,
                       status |-> r.status,
                       ret |-> IF r.status = "ok" THEN Len(heap) + 1 ELSE 0]
  /\ UNCHANGED <<plan, input, calls>>

\* the caller's Float64Array of n elements, holding 5 everywhere
NewOutput ==
  /\ Len(heap) = 2 /\ last.op = "createWindow"
  /\ \E n \in 1..MaxSize :
       /\ heap' = Append(heap, Tuple([i \in 1..n |-> Num(5)], n))
       /\ last' = [op |-> "Float64Array", size |-> SizeOf(n), status |-> "ok",
                   ret |-> Len(heap) + 1]
  /\ UNCHANGED <<plan, input, calls>>

ApplyWindow ==
  /\ Len(heap) >= 2 /\ calls = 0
  /\ \E in \in 1..2, out \in 0..Len(heap) :
       LET r == applyWindow(heap, in, 3 - in, out)
       IN  /\ heap' = r.heap
           /\ last' = [op |-> "applyWindow", in |-> in, w |-> 3 - in, out |-> out,
                       status |-> r.status, ret |-> r.ret, pre |-> heap]
  /\ calls' = calls + 1
  /\ UNCHANGED <<plan, input>>

NextWindow == BuildFrame \/ CreateWindow \/ NewOutput \/ ApplyWindow

SpecWindow == InitWindow /\ [][NextWindow]_vars

\* C12: the frame built from samples of length L for an integer frame size
\* N has N elements, frame[i] = samples[i] for i < min(N, L) and 0 from
\* there on: short inputs are zero-padded, long inputs truncated.
C12_FrameAssembly ==
  (last.op = "buildFrame" /\ last.size.den = 1) =>
    LET N == last.size.num
        L == Len(input)
        frame == heap[last.ret]
    IN  /\ Len(frame) = N
        /\ \A i \in 0..(N - 1) :
             frame[i + 1] = IF i < L THEN input[i + 1] ELSE Zero

\* C12 witness: a frame of four samples built from two samples
C12_Witness ==
  /\ last.op = "buildFrame" /\ last.size = SizeOf(4)
  /\ input = Ramp(2)
  /\ heap[last.ret] = <<Num(1), Num(2), Zero, Zero>>

\* C14: createWindow with a type that is none of rect, hann, hamming,
\* blackman fails with UnknownWindow for every positive size, size 1
\* included, and hands no array to the caller.
C14_UnknownWindow ==
  (last.op = "createWindow" /\ last.type \notin WindowTypes /\ last.size.num > 0)
    => (last.status = "UnknownWindow" /\ last.ret = 0)

\* C15: applyWindow on arrays of different lengths fails with InvalidLength
\* and leaves every array, a given output array included, as it was; on
\* arrays of one length N it returns an array of N elements holding
\* input[i] * w[i], and input and w keep their contents unless one of them
\* was passed as the output array.
C15_ApplyWindow ==
  last.op = "applyWindow" =>
    LET a == last.pre[last.in]
        w == last.pre[last.w]
    IN  IF Len(a) # Len(w)
        THEN last.status = "InvalidLength" /\ heap = last.pre
        ELSE /\ last.status = "ok"
             /\ Len(heap[last.ret]) = Len(a)
             /\ \A i \in 1..Len(a) : heap[last.ret][i] = Mul(a[i], w[i])
             /\ last.out # last.in => heap[last.in] = a
             /\ last.out # last.w => heap[last.w] = w

---------------------------------------------------------------------------
(* The spectrum pipeline *)

\* magnitude(input)
magnitude(X) ==
  LET n == Len(X.real)
  IN  Tuple([i \in 1..n |-> MathHypot(GetOrZero(X.real, i - 1),
                                      GetOrZero(X.imag, i - 1))], n)

\* phase(input)
phase(X) ==
  LET n == Len(X.real)
  IN  Tuple([i \in 1..n |-> MathAtan2(GetOrZero(X.imag, i - 1),
                                      GetOrZero(X.real, i - 1))], n)

\* options.key ?? default
Opt(options, key, default) ==
  IF key \in options.given THEN options[key] ELSE default

\* spectrum() and spectrumWithService() have the same text from
\* `const frame = ...` on.  It is modelled once, one operator for each
\* value the text names and uses again: peak, frequencies, the transform
\* and the windowed frame.

\* the returned record without `peak.phase = phaseBins[peak.index] ?? 0`
SpectrumResultPhaseUnset(frequencies, amplitude, phaseBins, peak) ==
  [status |-> "ok",
   frequencies |-> frequencies,
   amplitude |-> amplitude,
   phase |-> phaseBins,
   peak |-> peak]

\* peak.phase = phaseBins[peak.index] ?? 0 and the returned record
SpectrumResult(frequencies, amplitude, phaseBins, peak) ==
  [status |-> "ok",
   frequencies |-> frequencies,
   amplitude |-> amplitude,
   phase |-> phaseBins,
   peak |-> [peak EXCEPT !.phase = GetOrZero(phaseBins, peak.index)]]

\* const peak = findPeak(amplitude, frequencies), f the outcome of
\* binFrequencies
SpectrumFromBins(f, amplitude, phaseBins) ==
  IF f.status # "ok" THEN [status |-> f.status]
  ELSE SpectrumResult(f.value, amplitude, phaseBins, findPeak(amplitude, f.value))

\* the same with phaseBins = ang on both sides
SpectrumFromPolarFullPhase(mag, ang, N, sampleRate, sides) ==
  SpectrumFromBins(binFrequencies(N, sampleRate, sides),
                   IF sides = "one" THEN scaleAmplitudeOneSided(mag, N)
                                    ELSE scaleAmplitudeTwoSided(mag, N),
                   ang)

\* from `const amplitude = ...` to `const frequencies = ...`
SpectrumFromPolar(mag, ang, N, sampleRate, sides) ==
  SpectrumFromBins(binFrequencies(N, sampleRate, sides),
                   IF sides = "one" THEN scaleAmplitudeOneSided(mag, N)
                                    ELSE scaleAmplitudeTwoSided(mag, N),
                   IF sides = "one" THEN SubSeq(ang, 1, (N \div 2) + 1)
                                    ELSE ang)

\* mag and ang of the transform fw, the outcome of fft.forward(windowed)
SpectrumFromTransform(fw, N, sampleRate, sides) ==
  IF fw.status # "ok" THEN [status |-> fw.status]
  ELSE SpectrumFromPolar(magnitude(fw.heap[fw.ret]), phase(fw.heap[fw.ret]),
                         N, sampleRate, sides)

\* fft.forward(windowed), windowed the outcome of applyWindow
SpectrumFromWindowed(fft, windowed, N, sampleRate, sides) ==
  IF windowed.status # "ok" THEN [status |-> windowed.status]
  ELSE SpectrumFromTransform(forward(<< >>, KernelOf(fft),
                                     windowed.heap[windowed.ret], 0),
                             N, sampleRate, sides)

SpectrumTail(fft, window, samples, targetSize, sampleRate, sides) ==
  SpectrumFromWindowed(fft,
                       applyWindow(<<buildFrame(samples, targetSize), window>>, 1, 2, 0),
                       targetSize.num, sampleRate, sides)

\* spectrum() once new FFT(targetSize) and createWindow(windowType,
\* targetSize) have returned or thrown
spectrumWith(fft, window, samples, targetSize, sampleRate, sides) ==
  IF ~fft.ok THEN [status |-> fft.error]
  ELSE IF window.status # "ok" THEN [status |-> window.status]
  ELSE SpectrumTail(fft.value, window.value, samples, targetSize, sampleRate, sides)

\* spectrum(samples, options)
spectrum(samples, options) ==
  LET targetSize == Opt(options, "fftSize", SizeOf(nextPowerOfTwo(Len(samples))))
  IN  spectrumWith(FFTNew(targetSize),
                   createWindow(Opt(options, "window", "rect"), targetSize),
                   samples, targetSize,
                   Opt(options, "sampleRate", 1), Opt(options, "sides", "one"))

---------------------------------------------------------------------------
(* FourierLive.  A service is its two caches; a cache is a set of entries  *)
(* [key, ref], ref naming the cached object on the heap.                   *)

NewService == [cls |-> "FourierLive", fftCache |-> {}, windowCache |-> {}]

\* cache.get(key): the reference, or 0 for undefined
CacheGet(cache, key) ==
  IF \E e \in cache : e.key = key
  THEN (CHOOSE e \in cache : e.key = key).ref ELSE 0

\* cache.set(key, ref)
CacheSet(cache, key, ref) ==
  {e \in cache : e.key # key} \cup {[key |-> key, ref |-> ref]}

\* a service.fft(size) that stores the key before new FFT(size) has
\* returned: a refused size leaves an entry without a plan
ServiceFftCreateKeyFirst(service, h, size, created) ==
  IF ~created.ok
    THEN [status |-> created.error, ret |-> 0,
          service |-> [service EXCEPT !.fftCache = CacheSet(@, size, 0)],
          heap |-> h]
  ELSE [status |-> "ok", ret |-> Len(h) + 1,
        service |-> [service EXCEPT !.fftCache = CacheSet(@, size, Len(h) + 1)],
        heap |-> Append(h, created.value)]

\* service.fft(size) past `if (cached) return cached`: created is the
\* outcome of new FFT(size)
ServiceFftCreate(service, h, size, created) ==
  IF ~created.ok
    THEN [status |-> created.error, ret |-> 0, service |-> service, heap |-> h]
  ELSE [status |-> "ok", ret |-> Len(h) + 1,
        service |-> [service EXCEPT !.fftCache = CacheSet(@, size, Len(h) + 1)],
        heap |-> Append(h, created.value)]

\* service.fft(size) without the look-up in the cache
ServiceFftUncached(service, h, size) ==
  ServiceFftCreate(service, h, size, FFTNew(size))

\* service.fft(size) on the heap h
ServiceFft(service, h, size) ==
  LET cached == CacheGet(service.fftCache, size)
  IN  IF cached # 0
        THEN [status |-> "ok", ret |-> cached, service |-> service, heap |-> h]
      ELSE ServiceFftCreate(service, h, size, FFTNew(size))

\* service.window(type, size) past `if (cached) return cached`: created is
\* the outcome of createWindow(type, size)
ServiceWindowCreate(service, h, key, created) ==
  IF created.status # "ok"
    THEN [status |-> created.status, ret |-> 0, service |-> service, heap |-> h]
  ELSE [status |-> "ok", ret |-> Len(h) + 1,
        service |-> [service EXCEPT !.windowCache = CacheSet(@, key, Len(h) + 1)],
        heap |-> Append(h, [cls |-> "Float64Array", data |-> created.value])]

\* service.window(type, size) with the size alone as the key
ServiceWindowKeyedBySize(service, h, type, size) ==
  LET cached == CacheGet(service.windowCache, <<"", size>>)
  IN  IF cached # 0
        THEN [status |-> "ok", ret |-> cached, service |-> service, heap |-> h]
      ELSE ServiceWindowCreate(service, h, <<"", size>>, createWindow(type, size))

\* service.window(type, size) on the heap h; the key `${type}:${size}` is
\* the pair of the type and the size
ServiceWindow(service, h, type, size) ==
  LET cached == CacheGet(service.windowCache, <<type, size>>)
  IN  IF cached # 0
        THEN [status |-> "ok", ret |-> cached, service |-> service, heap |-> h]
      ELSE ServiceWindowCreate(service, h, <<type, size>>, createWindow(type, size))

\* spectrumWithService() once service.window(windowType, targetSize) has
\* returned or thrown
spectrumWithWindow(fft, window, samples, targetSize, sampleRate, sides) ==
  IF window.status # "ok"
    THEN [result |-> [status |-> window.status],
          service |-> fft.service, heap |-> fft.heap]
  ELSE [result |-> SpectrumTail(window.heap[fft.ret], window.heap[window.ret].data,
                                samples, targetSize, sampleRate, sides),
        service |-> window.service, heap |-> window.heap]

\* spectrumWithService() once service.fft(targetSize) has returned or thrown
spectrumWithFft(service, h, fft, windowType, samples, targetSize, sampleRate, sides) ==
  IF fft.status # "ok"
    THEN [result |-> [status |-> fft.status], service |-> service, heap |-> h]
  ELSE spectrumWithWindow(fft,
                          ServiceWindow(fft.service, fft.heap, windowType, targetSize),
                          samples, targetSize, sampleRate, sides)

\* spectrumWithService(service, samples, options) on the heap h: the result
\* and the service and heap left behind
spectrumWithService(service, h, samples, options) ==
  LET targetSize == Opt(options, "fftSize", SizeOf(nextPowerOfTwo(Len(samples))))
  IN  spectrumWithFft(service, h, ServiceFft(service, h, targetSize),
                      Opt(options, "window", "rect"), samples, targetSize,
                      Opt(options, "sampleRate", 1), Opt(options, "sides", "one"))

---------------------------------------------------------------------------
(* SpecApi: one FourierLive service.  The caller makes up to MaxCalls      *)
(* service.fft and service.window calls and then runs spectrumFx against    *)
(* the service; or it calls spectrum or binFrequencies directly.  `input`   *)
(* is the log of what the service calls returned: the key asked for and     *)
(* the reference returned.                                                  *)

\* the sizes the service is asked for, and the fftSize options
ServiceSizes == {SizeOf(0), SizeOf(2), SizeOf(4)}

ApiSizes == {SizeOf(n) : n \in 1..MaxSize} \cup {Half(5)}

\* hamming and blackman are exercised in SpecWindow: their coefficients in
\* fiftieths take the squares compared in findPeak past 32 bits
ApiWindowTypes == {"rect", "hann", "kaiser"}

ApiSamples == {Ramp(0), Ramp(MaxLen), Ramp(MaxLen + 1)}

\* an option given with one of the values, or omitted
Choice(values, filler) ==
  {[given |-> TRUE, value |-> v] : v \in values}
    \cup {[given |-> FALSE, value |-> filler]}

OptionInputs ==
  {[given |-> {k \in {"sampleRate", "fftSize", "window", "sides"} :
                 /\ k = "sampleRate" => r.given
                 /\ k = "fftSize" => f.given
                 /\ k = "window" => w.given
                 /\ k = "sides" => d.given},
    sampleRate |-> r.value, fftSize |-> f.value,
    window |-> w.value, sides |-> d.value] :
     <<r, f, w, d>> \in Choice({0}, 1) \X Choice(ApiSizes, SizeOf(1))
                          \X Choice(ApiWindowTypes, "rect") \X Choice({"two"}, "one")}

ApiOps == {"spectrum", "spectrumFx", "binFrequencies"}

InitApi ==
  /\ plan = NewService
  /\ heap = << >>
  /\ input = << >>
  /\ last = NoCall
  /\ calls = 0

\* service.fft(size)
Fft ==
  /\ calls < MaxCalls /\ last.op \notin ApiOps
  /\ \E size \in ServiceSizes :
       \E r \in {ServiceFft(plan, heap, size)} :
           /\ plan' = r.service
           /\ heap' = r.heap
           /\ last' = [op |-> "fft", size |-> size, status |-> r.status, ret |-> r.ret]
           /\ input' = IF r.status = "ok"
                       THEN Append(input, [op |-> "fft", key |-> size, ref |-> r.ret])
                       ELSE input
  /\ calls' = calls + 1

\* service.window(type, size)
Window ==
  /\ calls < MaxCalls /\ last.op \notin ApiOps
  /\ \E type \in ApiWindowTypes, size \in ServiceSizes :
       \E r \in {ServiceWindow(plan, heap, type, size)} :
           /\ plan' = r.service
           /\ heap' = r.heap
           /\ last' = [op |-> "window", type |-> type, size |-> size,
                       status |-> r.status, ret |-> r.ret]
           /\ input' = IF r.status = "ok"
                       THEN Append(input, [op |-> "window", key |-> <<type, size>>,
                                           ref |-> r.ret])
                       ELSE input
  /\ calls' = calls + 1

\* spectrumFx(samples, options) run against the service
SpectrumFx ==
  /\ last.op \notin ApiOps
  /\ \E samples \in ApiSamples, options \in OptionInputs :
       \E r \in {spectrumWithService(plan, heap, samples, options)} :
           /\ plan' = r.service
           /\ heap' = r.heap
           /\ last' = [op |-> "spectrumFx", samples |-> samples, options |-> options,
                       status |-> r.result.status, result |-> r.result]
  /\ UNCHANGED <<input, calls>>

\* spectrum(samples, options)
Spectrum ==
  /\ calls = 0 /\ last.op \notin ApiOps
  /\ \E samples \in ApiSamples, options \in OptionInputs :
       \E r \in {spectrum(samples, options)} :
           last' = [op |-> "spectrum", samples |-> samples, options |-> options,
                    status |-> r.status, result |-> r]
  /\ UNCHANGED <<plan, heap, input, calls>>

\* binFrequencies(size, sampleRate, sides)
BinFrequencies ==
  /\ calls = 0 /\ last.op \notin ApiOps
  /\ \E size \in -1..MaxSize, sampleRate \in SampleRates \cup {-1}, sides \in {"one", "two"} :
       \E f \in {binFrequencies(size, sampleRate, sides)} :
           last' = [op |-> "binFrequencies", size |-> size, sampleRate |-> sampleRate,
                    sides |-> sides, status |-> f.status, result |-> f]
  /\ UNCHANGED <<plan, heap, input, calls>>

NextApi == Fft \/ Window \/ SpectrumFx \/ Spectrum \/ BinFrequencies

SpecApi == InitApi /\ [][NextApi]_vars

---------------------------------------------------------------------------
(* Properties of spectrum, spectrumFx and the FourierLive service *)

SpectrumOps == {"spectrum", "spectrumFx"}

\* the frame size N of the last spectrum call: options.fftSize, or the
\* next power of two of the number of samples
FrameSizeOf(call) ==
  Opt(call.options, "fftSize", SizeOf(nextPowerOfTwo(Len(call.samples)))).num

SidesOf(call) == Opt(call.options, "sides", "one")

\* M: floor(N/2) + 1 bins on one side, N on two
BinsOf(call) ==
  IF SidesOf(call) = "one" THEN (FrameSizeOf(call) \div 2) + 1 ELSE FrameSizeOf(call)

\* C11: every successful spectrum call with frame size N returns
\* frequencies, amplitude and phase of one length M, M = floor(N/2) + 1 for
\* sides = "one" (the default) and M = N for sides = "two", and
\* 0 <= peak.index < M.
C11_SidednessLengths ==
  last.op \in SpectrumOps /\ last.status = "ok"
    => /\ Len(last.result.frequencies) = BinsOf(last)
       /\ Len(last.result.amplitude) = BinsOf(last)
       /\ Len(last.result.phase) = BinsOf(last)
       /\ last.result.peak.index \in 0..(BinsOf(last) - 1)

\* a one-sided call with N = 4 has returned arrays of 3 bins
C11_Witness ==
  /\ last.op = "spectrum" /\ last.status = "ok"
  /\ SidesOf(last) = "one" /\ FrameSizeOf(last) = 4
  /\ Len(last.result.phase) = 3
  /\ last.result.peak.index > 0

\* C16: binFrequencies(size, sampleRate, sides) returns
\* freq[k] = k * sampleRate / size for every k in [0, M) and fails with
\* InvalidArgument whenever size <= 0 or sampleRate <= 0; a spectrum call
\* with sampleRate <= 0 returns no result.
C16_BinFrequencies ==
  /\ last.op = "binFrequencies"
       => IF last.size <= 0 \/ last.sampleRate <= 0
          THEN last.status = "InvalidArgument"
          ELSE /\ last.status = "ok"
               /\ Len(last.result.value) =
                    (IF last.sides = "one" THEN (last.size \div 2) + 1 ELSE last.size)
               /\ \A k \in 0..(Len(last.result.value) - 1) :
                    last.result.value[k + 1] = Rat(k * last.sampleRate, last.size)
  /\ last.op \in SpectrumOps /\ Opt(last.options, "sampleRate", 1) <= 0
       => last.status # "ok"

\* a one-sided axis of even size ends at sampleRate / 2
C16_Witness ==
  /\ last.op = "binFrequencies" /\ last.status = "ok"
  /\ last.size = 4 /\ last.sampleRate = 8 /\ last.sides = "one"
  /\ last.result.value = <<Num(0), Num(2), Num(4)>>

\* a spectrum call with sampleRate 0 whose transform succeeds has failed
C16_WitnessSpectrum ==
  /\ last.op = "spectrum" /\ last.status = "InvalidArgument"
  /\ "sampleRate" \in last.options.given /\ last.options.sampleRate = 0
  /\ Len(last.samples) = 3

\* C17: in every result returned by spectrum and spectrumFx the peak record
\* agrees with the returned arrays: peak.frequency = frequencies[peak.index],
\* peak.amplitude = amplitude[peak.index], peak.phase = phase[peak.index].
C17_PeakConsistent ==
  last.op \in SpectrumOps /\ last.status = "ok"
    => LET r == last.result
           i == r.peak.index + 1
       IN  /\ i \in DOMAIN r.frequencies
           /\ r.peak.frequency = r.frequencies[i]
           /\ r.peak.amplitude = r.amplitude[i]
           /\ r.peak.phase = r.phase[i]

\* a peak off bin 0 with a phase other than 0
C17_Witness ==
  /\ last.op = "spectrumFx" /\ last.status = "ok"
  /\ last.result.peak.index > 0
  /\ last.result.peak.phase # Zero
  /\ last.result.peak.phase = last.result.phase[last.result.peak.index + 1]

\* C19: within one service, fft(s) returns the identical FFT instance on
\* every call with the same s and distinct instances for different s, and
\* window(t, s) returns the identical array for the same (t, s) and distinct
\* arrays when the type or the size differs: any two returns in the log of
\* one kind of call have one reference exactly when they have one key.
C19_CacheIdentity ==
  \A i, j \in 1..Len(input) :
    input[i].op = input[j].op
      => (input[i].key = input[j].key <=> input[i].ref = input[j].ref)

\* window("hann", 2) twice: one array
C19_Witness ==
  /\ Len(input) = 2
  /\ input[1].op = "window" /\ input[1].key = <<"hann", SizeOf(2)>>
  /\ input[2] = input[1]
  /\ heap[input[2].ref].data = <<Zero, Zero>>

\* window("rect", 2) and window("hann", 2): two arrays
C19_WitnessDistinct ==
  /\ Len(input) = 2
  /\ input[1].op = "window" /\ input[2].op = "window"
  /\ input[1].key = <<"rect", SizeOf(2)>> /\ input[2].key = <<"hann", SizeOf(2)>>
  /\ input[1].ref # input[2].ref

\* C20: spectrumFx run against FourierLive returns the frequencies,
\* amplitude, phase and peak of spectrum(samples, options) and fails exactly
\* when spectrum fails, whatever plans and windows the service has cached.
C20_SpectrumFxIsSpectrum ==
  last.op = "spectrumFx"
    => \E r \in {spectrum(last.samples, last.options)} :
         /\ last.result.status = "ok" <=> r.status = "ok"
         /\ r.status = "ok"
              => /\ last.result.frequencies = r.frequencies
                 /\ last.result.amplitude = r.amplitude
                 /\ last.result.phase = r.phase
                 /\ last.result.peak = r.peak

\* spectrumFx has succeeded on a plan and a window that the two earlier
\* calls had cached: it has created nothing
C20_Witness ==
  /\ last.op = "spectrumFx" /\ last.status = "ok"
  /\ calls = 2 /\ Len(heap) = 2
  /\ plan.fftCache # {} /\ plan.windowCache # {}
  /\ Opt(last.options, "window", "rect") = "hann"

\* spectrumFx has failed on a service with a cached plan
C20_WitnessFailure ==
  /\ last.op = "spectrumFx" /\ last.status # "ok"
  /\ plan.fftCache # {}

\* the entries of the two caches
CacheEntries == plan.fftCache \cup plan.windowCache

\* every key is stored once, every cached object is stored under one key,
\* every object the service constructed is cached, and a cached plan has
\* the size it is stored under
CachesConsistent ==
  /\ \A c \in {plan.fftCache, plan.windowCache} :
       \A e, f \in c : e.key = f.key => e = f
  /\ \A e, f \in CacheEntries : e.ref = f.ref => e = f
  /\ {e.ref : e \in CacheEntries} = 1..Len(heap)
  /\ \A e \in plan.fftCache :
       heap[e.ref].cls = "FFT" /\ heap[e.ref].size = e.key
  /\ \A e \in plan.windowCache : heap[e.ref].cls = "Float64Array"

\* a service call that threw leaves the caches and the cached objects as
\* they were; a service call constructs an object only for a key that is
\* not stored, and stores it under that key
ServiceCallStep ==
  /\ (last'.op \in {"fft", "window"} /\ last'.status # "ok")
       => (plan' = plan /\ heap' = heap)
  /\ (last'.op = "fft" /\ heap' # heap) =>
       /\ CacheGet(plan.fftCache, last'.size) = 0
       /\ heap' = Append(heap, heap'[Len(heap')])
       /\ plan'.fftCache = plan.fftCache \cup {[key |-> last'.size, ref |-> Len(heap')]}
       /\ plan'.windowCache = plan.windowCache
  /\ (last'.op = "window" /\ heap' # heap) =>
       /\ CacheGet(plan.windowCache, <<last'.type, last'.size>>) = 0
       /\ heap' = Append(heap, heap'[Len(heap')])
       /\ plan'.windowCache =
            plan.windowCache \cup {[key |-> <<last'.type, last'.size>>, ref |-> Len(heap')]}
       /\ plan'.fftCache = plan.fftCache
  /\ (last'.op \in {"fft", "window"} /\ heap' = heap) => plan' = plan

\* C30: in FourierLive a failing fft(size) or window(type, size) leaves both
\* caches unchanged; over any sequence of calls the plan or window of a key
\* is constructed at most once; a plan stored under key s has size s.
C30_FailedLookupKeepsCaches ==
  []CachesConsistent /\ [][ServiceCallStep]_vars

\* C30 witness: fft(0) was refused by a service that holds the plan of
\* size 4, still cached
C30_Witness ==
  /\ last.op = "fft" /\ last.status # "ok" /\ last.size = SizeOf(0)
  /\ plan.fftCache = {[key |-> SizeOf(4), ref |-> 1]} /\ plan.windowCache = {}
  /\ Len(heap) = 1 /\ heap[1].size = SizeOf(4)

\* C30 witness: window(type, 0) was refused by a service that holds a plan
C30_WitnessWindow ==
  /\ last.op = "window" /\ last.status # "ok" /\ last.size = SizeOf(0)
  /\ Cardinality(plan.fftCache) = 1 /\ plan.windowCache = {}
  /\ Len(heap) = 1

\* C30 witness: a plan of fractional size, cached under that size
C30_WitnessSize ==
  \E e \in plan.fftCache : e.key = Half(5) /\ heap[e.ref].size = Half(5)

---------------------------------------------------------------------------
(* ComplexChain and FluentFFT.  A chain object is its two fields: data, the *)
(* reference of its ComplexArray, and _inverseFn, null ("none") or the      *)
(* callback (d, o) => this.fft.inverse(d, o) of the FluentFFT that made it  *)
(* ("inverse").                                                             *)

\* new ComplexChain(data, inverseFn)
ComplexChainNew(data, inverseFn) ==
  [cls |-> "ComplexChain", data |-> data, inverseFn |-> inverseFn]

\* chain(data)
chain(data) == ComplexChainNew(data, "none")

\* FluentFFT.forward / forwardComplex past this.fft.forward(input, out): r
\* is the outcome of the transform, the chain is built when it returned
FluentChain(r) ==
  IF r.status = "ok" THEN ComplexChainNew(r.ret, "inverse") ELSE chain(0)

\* a clone sharing the data of its chain
cloneShallow(h, c) == [heap |-> h, chain |-> ComplexChainNew(c.data, c.inverseFn)]

\* clone(): new ComplexChain(copy(this.data), this._inverseFn)
clone(h, c) ==
  [heap |-> copy(h, c.data), chain |-> ComplexChainNew(Len(h) + 1, c.inverseFn)]

\* this._inverseFn!(this.data, out): calling null throws a TypeError
CallInverseFn(h, k, c, out) ==
  IF c.inverseFn = "none" THEN [status |-> "TypeError", ret |-> 0, heap |-> h]
  ELSE inverse(h, k, c.data, out)

\* inverseChecked without its try / catch: what _inverseFn throws is raised
inverseCheckedUncaught(r) ==
  IF r.status = "ok" THEN [raised |-> FALSE, ok |-> TRUE, value |-> r.ret]
  ELSE [raised |-> TRUE, ok |-> FALSE,
        error |-> [tag |-> "NotInvertible", reason |-> r.status]]

\* inverseChecked(out), r the outcome of this._inverseFn!(this.data, out)
inverseChecked(r) ==
  IF r.status = "ok" THEN [raised |-> FALSE, ok |-> TRUE, value |-> r.ret]
  ELSE [raised |-> FALSE, ok |-> FALSE,
        error |-> [tag |-> "NotInvertible", reason |-> r.status]]

---------------------------------------------------------------------------
(* SpecChain: a FluentFFT plan and one caller buffer.  The caller makes one *)
(* chain (chain(data), forward or forwardComplex, with or without an output *)
(* buffer), then up to MaxCalls chain operations and clones, and ends with  *)
(* unwrap or inverseChecked.  `input` holds the chain objects; input[2],    *)
(* when there is one, is the clone of input[1].                             *)

ChainSizes == {Pow2(L) : L \in 0..MaxFrameLog2}

ChainBuffers == {ArithBuffer(n, 1, 0) : n \in {2, 4}}

ChainRealScalars == {Zero, Num(2)}

ChainComplexScalars == {<<Zero, Zero>>, <<One, One>>}

InitChain ==
  /\ plan \in {FluentFFTNew(SizeOf(n)).value : n \in ChainSizes}
  /\ heap \in {<<b>> : b \in ChainBuffers}
  /\ input = << >>
  /\ last = NoCall
  /\ calls = 0

\* chain(data) on the caller's buffer
ChainOf ==
  /\ last.op = "none"
  /\ \E data \in 1..Len(heap) :
       /\ input' = <<chain(data)>>
       /\ last' = [op |-> "chain", out |-> data, status |-> "ok", ret |-> 1,
                   pre |-> heap]
  /\ UNCHANGED <<plan, heap, calls>>

\* the chain-making call returned r
ChainMade(op, out, r) ==
  /\ heap' = r.heap
  /\ input' = IF r.status = "ok" THEN <<FluentChain(r)>> ELSE input
  /\ last' = [op |-> op, out |-> out, status |-> r.status,
              ret |-> IF r.status = "ok" THEN 1 ELSE 0, pre |-> heap]
  /\ UNCHANGED <<plan, calls>>

\* FluentFFT.forward(input, out)
FluentForward ==
  /\ last.op = "none"
  /\ \E out \in 0..Len(heap) :
       \E r \in {forward(heap, KernelOf(plan), Ramp(ToIndex(plan.size)), out)} :
         ChainMade("forward", out, r)

\* FluentFFT.forwardComplex(input, out)
FluentForwardComplex ==
  /\ last.op = "none"
  /\ \E in \in 1..Len(heap), out \in 0..Len(heap) :
       \E r \in {forwardComplex(heap, KernelOf(plan), in, out)} :
         ChainMade("forwardComplex", out, r)

ChainEnds == {"unwrap", "inverseChecked"}

Chains == 1..Len(input)

\* clone() of the first chain
Clone ==
  /\ Len(input) = 1 /\ calls < MaxCalls /\ last.op \notin ChainEnds
  /\ \E r \in {clone(heap, input[1])} :
       /\ heap' = r.heap
       /\ input' = Append(input, r.chain)
       /\ last' = [op |-> "clone", chain |-> 1, status |-> "ok", ret |-> 2,
                   pre |-> heap]
  /\ calls' = calls + 1
  /\ UNCHANGED plan

\* the chainable operation op of chain c took the heap to h and returned
\* `this`
ChainCall(op, c, b, s, z, h) ==
  /\ calls < MaxCalls /\ last.op \notin ChainEnds
  /\ heap' = h
  /\ last' = [op |-> op, chain |-> c, b |-> b, s |-> s, re |-> z[1], im |-> z[2],
              status |-> "ok", ret |-> c, pre |-> heap]
  /\ calls' = calls + 1
  /\ UNCHANGED <<plan, input>>

\* the ComplexArray arguments of mul, div, add and sub: the caller's buffer
ChainArgs == {1}

ChainScale == \E c \in Chains, s \in ChainRealScalars :
  ChainCall("scale", c, 0, s, NoScalar,
            scaleInto(heap, input[c].data, s, input[c].data))
ChainMul == \E c \in Chains, b \in ChainArgs :
  ChainCall("mul", c, b, Zero, NoScalar,
            mulInto(heap, input[c].data, b, input[c].data))
ChainMulScalar == \E c \in Chains, z \in ChainComplexScalars :
  ChainCall("mulScalar", c, 0, Zero, z,
            mulScalarInto(heap, input[c].data, z[1], z[2], input[c].data))
ChainDiv == \E c \in Chains, b \in ChainArgs :
  ChainCall("div", c, b, Zero, NoScalar,
            divInto(heap, input[c].data, b, input[c].data))
ChainDivScalar == \E c \in Chains, z \in ChainComplexScalars :
  ChainCall("divScalar", c, 0, Zero, z,
            divScalarInto(heap, input[c].data, z[1], z[2], input[c].data))
ChainConj == \E c \in Chains :
  ChainCall("conj", c, 0, Zero, NoScalar,
            conjInto(heap, input[c].data, input[c].data))
ChainAdd == \E c \in Chains, b \in ChainArgs :
  ChainCall("add", c, b, Zero, NoScalar,
            addInto(heap, input[c].data, b, input[c].data))
ChainSub == \E c \in Chains, b \in ChainArgs :
  ChainCall("sub", c, b, Zero, NoScalar,
            subInto(heap, input[c].data, b, input[c].data))

\* unwrap()
Unwrap ==
  /\ last.op \notin ChainEnds
  /\ \E c \in Chains :
       last' = [op |-> "unwrap", chain |-> c, status |-> "ok",
                ret |-> input[c].data, pre |-> heap]
  /\ UNCHANGED <<plan, heap, input, calls>>

\* inverseChecked(out)
InverseChecked ==
  /\ last.op \notin ChainEnds
  /\ \E c \in Chains, out \in {0, 1} :
       \E r \in {CallInverseFn(heap, KernelOf(plan), input[c], out)} :
         /\ heap' = r.heap
         /\ last' = [op |-> "inverseChecked", chain |-> c, out |-> out,
                     status |-> IF inverseChecked(r).raised THEN "raised" ELSE "returned",
                     result |-> inverseChecked(r), pre |-> heap]
  /\ UNCHANGED <<plan, input, calls>>

NextChain ==
  \/ ChainOf \/ FluentForward \/ FluentForwardComplex \/ Clone
  \/ ChainScale \/ ChainMul \/ ChainMulScalar \/ ChainDiv
  \/ ChainDivScalar \/ ChainConj \/ ChainAdd \/ ChainSub
  \/ Unwrap \/ InverseChecked

SpecChain == InitChain /\ [][NextChain]_vars

---------------------------------------------------------------------------
(* Properties of the chain.                                                 *)

ChainOps ==
  {"scale", "mul", "mulScalar", "div", "divScalar", "conj", "add", "sub"}

\* what the allocating form of the chain operation in `last` returns for
\* the buffers the operation found
ChainAllocatingResult ==
  LET p == last.pre
      a == input[last.chain].data
      h == CASE last.op = "scale" -> scale(p, a, last.s)
             [] last.op = "mul" -> mul(p, a, last.b)
             [] last.op = "mulScalar" -> mulScalar(p, a, last.re, last.im)
             [] last.op = "div" -> div(p, a, last.b)
             [] last.op = "divScalar" -> divScalar(p, a, last.re, last.im)
             [] last.op = "conj" -> conj(p, a)
             [] last.op = "add" -> add(p, a, last.b)
             [] last.op = "sub" -> sub(p, a, last.b)
  IN  h[Len(h)]

\* every buffer the call in `last` found, other than d, is as it was
OnlyChanged(d) ==
  \A e \in 1..Len(last.pre) : e # d => heap[e] = last.pre[e]

\* C21: a chainable operation returns its own chain, creates no buffer,
\* leaves in the chain's buffer what the operation yields for the buffers it
\* found and changes no other buffer; unwrap returns the chain's buffer;
\* clone returns a chain over a new buffer with the same contents, so the
\* two chains never share data and an operation on one leaves the other's
\* data as it was.
C21_ChainWritesOwnBuffer ==
  /\ last.op \in ChainOps =>
       /\ last.status = "ok" /\ last.ret = last.chain
       /\ Len(heap) = Len(last.pre)
       /\ heap[input[last.chain].data] = ChainAllocatingResult
       /\ OnlyChanged(input[last.chain].data)
  /\ last.op = "unwrap" =>
       /\ last.ret = input[last.chain].data
       /\ heap = last.pre
  /\ last.op = "clone" =>
       /\ input[2].data = Len(last.pre) + 1
       /\ heap[input[2].data] = last.pre[input[1].data]
       /\ OnlyChanged(0)
       /\ input[2].inverseFn = input[1].inverseFn
  /\ Len(input) = 2 => input[1].data # input[2].data

\* C21 witness: mul on the clone of a chain changed the clone's buffer and
\* left the original's
C21_Witness ==
  /\ last.op = "mul" /\ last.chain = 2
  /\ heap[input[2].data] # last.pre[input[2].data]
  /\ heap[input[1].data] = last.pre[input[1].data]
  /\ heap[input[1].data] # heap[input[2].data]

\* C21 witness: scale on a cloned chain changed the original's buffer and
\* left the clone's
C21_WitnessOriginal ==
  /\ last.op = "scale" /\ last.chain = 1 /\ Len(input) = 2
  /\ heap[input[1].data] # last.pre[input[1].data]
  /\ heap[input[2].data] = last.pre[input[2].data]

InverseErrorTags == {"NoFftContext", "NotInvertible", "LengthMismatch"}

\* the inverse transform of the chain's data, as the call in `last` found it
InverseOfChain ==
  inverse(last.pre, KernelOf(plan), input[last.chain].data, last.out)

\* C22: inverseChecked never raises; it returns ok:true with the buffer the
\* inverse transform of the chain's data returned, or ok:false with an
\* InverseError, the latter whenever the chain has no inverse function or
\* the inverse transform throws.
C22_InverseCheckedTotal ==
  last.op = "inverseChecked" =>
    /\ last.status = "returned" /\ ~last.result.raised
    /\ last.result.ok =>
         /\ input[last.chain].inverseFn = "inverse"
         /\ InverseOfChain.status = "ok"
         /\ last.result.value = InverseOfChain.ret
         /\ heap = InverseOfChain.heap
    /\ ~last.result.ok =>
         /\ last.result.error.tag \in InverseErrorTags
         /\ input[last.chain].inverseFn = "none" \/ InverseOfChain.status # "ok"
         /\ heap = last.pre

\* C22 witness: the inverse transform threw and inverseChecked returned
\* ok:false
C22_Witness ==
  /\ last.op = "inverseChecked"
  /\ input[last.chain].inverseFn = "inverse"
  /\ InverseOfChain.status # "ok"
  /\ ~last.result.ok

\* C22 witness: a chain without inverse function
C22_WitnessNoContext ==
  /\ last.op = "inverseChecked"
  /\ input[last.chain].inverseFn = "none"
  /\ ~last.result.ok /\ last.result.error.reason = "TypeError"

\* C22 witness: ok:true with a new buffer
C22_WitnessOk ==
  /\ last.op = "inverseChecked" /\ last.out = 0
  /\ last.result.ok /\ last.result.value = Len(last.pre) + 1
  /\ Len(heap) = Len(last.pre) + 1

\* C23: a chain made by forward or forwardComplex on a size-N plan has
\* length N after every sequence of chain operations, and inverseChecked()
\* on it returns ok:true with a buffer of length N.
C23_ChainStaysInvertible ==
  /\ \A c \in Chains :
       input[c].inverseFn = "inverse" =>
         len(heap, input[c].data) = ToIndex(plan.size)
  /\ (/\ last.op = "inverseChecked" /\ last.out = 0
      /\ input[last.chain].inverseFn = "inverse") =>
       /\ last.result.ok
       /\ len(heap, last.result.value) = ToIndex(plan.size)

---------------------------------------------------------------------------
(* SpecConv: convolution through the frequency domain.  A plan of each     *)
(* size and two real sequences x = input[1] and h = input[2] of its length; *)
(* X = forward(x), H = forward(h), mulInto(X, H, X), inverse(X).            *)

\* the unit impulses and the ramp
ConvSignals(n) ==
  {Tuple([i \in 1..n |-> IF i = p THEN One ELSE Zero], n) : p \in 1..n}
  \cup {Tuple([i \in 1..n |-> Num(i)], n)}

\* the impulse delayed by one sample, the ramp and the alternating ramp
ConvFilters(n) ==
  {Tuple([i \in 1..n |-> IF i = 2 THEN One ELSE Zero], n),
   Tuple([i \in 1..n |-> Num(i - 1)], n),
   Tuple([i \in 1..n |-> Num(IF i % 2 = 1 THEN i ELSE -i)], n)}

InitConv ==
  /\ plan \in {Radix2FftNew(SizeOf(n)).value : n \in PlanSizes}
  /\ heap = << >>
  /\ input \in ConvSignals(ToIndex(plan.size)) \X ConvFilters(ToIndex(plan.size))
  /\ last = NoCall
  /\ calls = 0

\* the transform of step `op` returned r
ConvStep(op, in, r) ==
  /\ heap' = r.heap
  /\ last' = Returned(op, in, 0, r)
  /\ calls' = calls + 1
  /\ UNCHANGED <<plan, input>>

\* X = forward(x)
ConvForwardSignal ==
  /\ calls = 0
  /\ \E r \in {forward(heap, KernelOf(plan), input[1], 0)} :
       ConvStep("forward", 0, r)

\* H = forward(h)
ConvForwardFilter ==
  /\ calls = 1
  /\ \E r \in {forward(heap, KernelOf(plan), input[2], 0)} :
       ConvStep("forward", 0, r)

\* mulInto(X, H, X)
ConvMul ==
  /\ calls = 2
  /\ heap' = mulInto(heap, 1, 2, 1)
  /\ last' = [op |-> "mulInto", in |-> 1, out |-> 1, status |-> "ok", ret |-> 1,
              pre |-> heap]
  /\ calls' = calls + 1
  /\ UNCHANGED <<plan, input>>

\* inverse(X)
ConvInverse ==
  /\ calls = 3
  /\ \E r \in {inverse(heap, KernelOf(plan), 1, 0)} :
       ConvStep("inverse", 1, r)

NextConv == ConvForwardSignal \/ ConvForwardFilter \/ ConvMul \/ ConvInverse

SpecConv == InitConv /\ [][NextConv]_vars

\* SUM over m in j..N-1 of x[m] * h[(n - m) mod N], indices from 0
RECURSIVE ConvSum(_, _, _, _)
ConvSum(x, h, n, m) ==
  IF m >= Len(x) THEN Zero
  ELSE Add(Mul(x[m + 1], h[((n - m) % Len(x)) + 1]), ConvSum(x, h, n, m + 1))

CircularConvolution(x, h) ==
  Tuple([n \in 1..Len(x) |-> ConvSum(x, h, n - 1, 0)], Len(x))

\* C24: inverse(mul(forward(x), forward(h))) has real part the circular
\* convolution of x and h and imaginary part zero, for every plan size.
C24_CircularConvolution ==
  (calls = 4 /\ last.op = "inverse") =>
    /\ last.status = "ok"
    /\ heap[last.ret].real = CircularConvolution(input[1], input[2])
    /\ heap[last.ret].imag = Tuple([n \in 1..Len(input[1]) |-> Zero], Len(input[1]))

\* C24 witness: a convolution of the largest size whose spectra have
\* irrational bins, with a result that is neither x nor h
C24_Witness ==
  /\ calls = 4 /\ last.op = "inverse" /\ last.status = "ok"
  /\ Len(input[1]) = Pow2(MaxLog2)
  /\ \E k \in DOMAIN input[1] : ~IsRat(last.pre[1].real[k])
  /\ heap[last.ret].real = CircularConvolution(input[1], input[2])
  /\ heap[last.ret].real \notin {input[1], input[2]}

---------------------------------------------------------------------------
(* SpecIdentity: the identity mul(a, scale(ones, s)) = scale(a, s).  One   *)
(* buffer a = heap[1] and one real scalar s = input; the caller builds     *)
(* ones = createComplexArray(len(a), 1), then scale(ones, s), then         *)
(* mul(a, scale(ones, s)) and scale(a, s).                                 *)

IdentityBuffers ==
  {ArithBuffer(n, re, im) : <<n, re, im>> \in (1..MaxLen) \X {0, 1, 2} \X {0, -1}}

InitIdentity ==
  /\ plan = NoPlan
  /\ heap \in {<<a>> : a \in IdentityBuffers}
  /\ input \in RealScalars
  /\ last = NoCall
  /\ calls = 0

\* step `op` took the heap to h, its result is the newest buffer
IdentityStep(op, h) ==
  /\ heap' = h
  /\ last' = [op |-> op, status |-> "ok", ret |-> Len(h), pre |-> heap]
  /\ calls' = calls + 1
  /\ UNCHANGED <<plan, input>>

\* ones = createComplexArray(len(a), 1)
IdentityOnes ==
  /\ calls = 0
  /\ IdentityStep("createComplexArray",
                  Append(heap, createComplexArray(len(heap, 1), One)))

\* scale(ones, s)
IdentityScaleOnes ==
  /\ calls = 1
  /\ IdentityStep("scale", scale(heap, 2, input))

\* mul(a, scale(ones, s))
IdentityMul ==
  /\ calls = 2
  /\ IdentityStep("mul", mul(heap, 1, 3))

\* scale(a, s)
IdentityScale ==
  /\ calls = 3
  /\ IdentityStep("scale", scale(heap, 1, input))

NextIdentity == IdentityOnes \/ IdentityScaleOnes \/ IdentityMul \/ IdentityScale

SpecIdentity == InitIdentity /\ [][NextIdentity]_vars

\* C25: mul(a, scale(ones, s)) equals scale(a, s) in every element, ones
\* being createComplexArray(len(a), 1).
C25_MulByScaledOnes ==
  calls = 4 => heap[4] = heap[5]

---------------------------------------------------------------------------
(* The tables of a plan.                                                    *)

\* bit b of x
Bit(x, b) == (x \div Pow2(b)) % 2

\* L with N = 2^L
Log2Of(n) == CHOOSE L \in 0..(MaxLog2 + 1) : Pow2(L) = n

\* C26: in a plan of size N = 2^L the bit-reversal table has N entries, all
\* below N, no two equal, entry i being i with its L bits reversed; there
\* are L twiddle tables and the table of stage s has 2^(s-1) cosines and
\* 2^(s-1) sines; a plan of size 1 has no stage and the table <<0>>.
C26_PlanTables ==
  LET N == ToIndex(plan.size)
      L == Log2Of(N)
      rev == plan.bitReverse
  IN  /\ Len(rev) = N
      /\ \A i \in 1..N : rev[i] \in 0..(N - 1)
      /\ \A i, j \in 1..N : rev[i] = rev[j] => i = j
      /\ \A i \in 1..N : \A b \in 0..(L - 1) : Bit(rev[i], b) = Bit(i - 1, L - 1 - b)
      /\ Len(plan.twiddles) = L
      /\ \A st \in 1..L :
           /\ Len(plan.twiddles[st].cos) = Pow2(st - 1)
           /\ Len(plan.twiddles[st].sin) = Pow2(st - 1)
      /\ N = 1 => (plan.twiddles = << >> /\ rev = <<0>>)

\* C26 witness: a plan of the largest size, used by a forward transform,
\* whose table moves index 1 to N/2 and index 3 to 3N/4
C26_Witness ==
  /\ ToIndex(plan.size) = Pow2(MaxLog2)
  /\ last.op = "forward" /\ last.status = "ok"
  /\ plan.bitReverse[2] = Pow2(MaxLog2 - 1)
  /\ plan.bitReverse[4] = 3 * Pow2(MaxLog2 - 2)
  /\ Len(plan.twiddles) = MaxLog2
  /\ Len(plan.twiddles[MaxLog2].cos) = Pow2(MaxLog2 - 1)

\* C26 witness: the plan of size 1
C26_WitnessSizeOne ==
  /\ ToIndex(plan.size) = 1 /\ last.op = "forward" /\ last.status = "ok"
  /\ plan.bitReverse = <<0>> /\ plan.twiddles = << >>

---------------------------------------------------------------------------
(* What a transform leaves alone.                                           *)

\* the plan as its constructor builds it
FreshPlan == Construct(plan.cls, plan.size).value

\* the call in `last`, made with the tables of the plan k
SameCallOnPlan(k) ==
  IF last.op = "forward" THEN forward(last.pre, k, input, last.out)
  ELSE IF last.op = "forwardComplex"
    THEN forwardComplex(last.pre, k, last.in, last.out)
  ELSE inverse(last.pre, k, last.in, last.out)

\* the buffer the call in `last` returned holds what the call returns with
\* the tables of a freshly constructed plan
SameOnFreshPlan ==
  \E k \in {KernelOf(FreshPlan)} :
    \E r \in {SameCallOnPlan(k)} : heap[last.ret] = r.heap[last.ret]

\* C27: a transform whose output is not its input buffer changes no buffer
\* but the one it returns (a new one when no output buffer is given), a
\* transform that throws changes none, and the plan stays as constructed:
\* size, bit-reversal table and twiddle tables, so that the call returns
\* what it returns on a fresh plan of that size.
C27_TransformWritesOnlyOutput ==
  /\ plan.cls # "none" => plan = FreshPlan
  /\ (IsTransform /\ last.status # "ok") => heap = last.pre
  /\ (IsTransform /\ last.status = "ok" /\ (last.out = 0 \/ last.out # last.in)) =>
       /\ last.ret = (IF last.out = 0 THEN Len(last.pre) + 1 ELSE last.out)
       /\ Len(heap) = (IF last.out = 0 THEN Len(last.pre) + 1 ELSE Len(last.pre))
       /\ \A e \in 1..Len(last.pre) : e # last.out => heap[e] = last.pre[e]
       /\ SameOnFreshPlan

\* C27 witness: the second transform on a size-4 plan, an inverse of the
\* spectrum the first one returned, left that spectrum as it was and made a
\* new buffer that differs from it
C27_Witness ==
  /\ IsTransform /\ last.op = "inverse" /\ last.status = "ok" /\ calls = 2
  /\ PlanLength = 4 /\ last.out = 0
  /\ heap[last.in] = last.pre[last.in]
  /\ heap[last.ret] # heap[last.in]
  /\ \E i \in 1..4 : heap[last.in].imag[i] # Zero

\* C27 witness: a forward into a caller's buffer after an earlier transform
C27_WitnessForward ==
  /\ last.op = "forward" /\ last.status = "ok" /\ calls = 2
  /\ PlanLength = 4 /\ last.out = 1 /\ Len(heap) = 2
  /\ heap[2] = last.pre[2] /\ heap[1] # last.pre[1]

\* a forwardComplex or inverse whose output buffer is its input buffer
TransformedInPlace ==
  /\ last.op \in {"forwardComplex", "inverse"} /\ last.status = "ok"
  /\ last.out # 0 /\ last.out = last.in

\* C28: a forwardComplex or inverse given its input buffer as output buffer
\* returns that buffer holding what the call without an output buffer
\* returns for the input as it was.
C28_InPlaceTransform ==
  TransformedInPlace =>
    /\ last.ret = last.in
    /\ heap[last.in] = SameCallWithoutOut.heap[SameCallWithoutOut.ret]

=============================================================================
